---- MODULE Spec2Model ----
(***************************************************************************)
(* Transaction reconciliation and posting pipeline of the Notion/Revolut   *)
(* sync server: dedup ledger, posting orchestrator, failure queue, retry   *)
(* pass.  Definitions keep the names of the Python source they model.      *)
(*                                                                         *)
(* Conventions                                                             *)
(*   - a Python str that the code searches (descriptions, keywords) is a   *)
(*     sequence of one-character strings, so `in`, lower() and strip()     *)
(*     are computed, not assumed;                                          *)
(*   - an Optional value is a sequence of length 0 (None) or 1;            *)
(*   - datetime.now().isoformat() is the token Now: the program stores     *)
(*     these values and never reads them back;                             *)
(*   - the two JSON files are reliable storage (reads return what was      *)
(*     last written).                                                      *)
(***************************************************************************)
EXTENDS Integers, Sequences, FiniteSets, TLC

(***************************************************************************)
(* Bounds of the model                                                     *)
(***************************************************************************)
\* sync runs and retry passes started in one behaviour
MaxRuns == 2
MaxPasses == 2
\* records in the queue a retry specification starts from
MaxQueue == 2
\* convert_to_usd calls made in one behaviour of the converter specification
MaxConversions == 2
\* categorize_transaction calls made in one behaviour of the classifier specification
MaxClassifications == 2

(***************************************************************************)
(* Python str operations                                                   *)
(***************************************************************************)
UpperLetters == <<"A", "B", "C", "D", "E", "F", "G", "H", "I", "J", "K", "L", "M",
                  "N", "O", "P", "Q", "R", "S", "T", "U", "V", "W", "X", "Y", "Z">>
LowerLetters == <<"a", "b", "c", "d", "e", "f", "g", "h", "i", "j", "k", "l", "m",
                  "n", "o", "p", "q", "r", "s", "t", "u", "v", "w", "x", "y", "z">>

\* chr -> chr.lower() and chr -> chr.upper() on the ASCII letters
ToLower == [c \in {UpperLetters[i] : i \in 1..Len(UpperLetters)} |->
               LowerLetters[CHOOSE i \in 1..Len(UpperLetters) : UpperLetters[i] = c]]
ToUpper == [c \in {LowerLetters[i] : i \in 1..Len(LowerLetters)} |->
               UpperLetters[CHOOSE i \in 1..Len(LowerLetters) : LowerLetters[i] = c]]

LowerChar(c) == IF c \in DOMAIN ToLower THEN ToLower[c] ELSE c

UpperChar(c) == IF c \in DOMAIN ToUpper THEN ToUpper[c] ELSE c

\* str.lower()
StrLower(s) == [i \in 1..Len(s) |-> LowerChar(s[i])]

\* str.upper()
StrUpper(s) == [i \in 1..Len(s) |-> UpperChar(s[i])]

IsLetter(c) == c \in DOMAIN ToLower \/ c \in DOMAIN ToUpper

RECURSIVE StripLeft(_)
StripLeft(s) == IF s # <<>> /\ Head(s) = " " THEN StripLeft(Tail(s)) ELSE s

RECURSIVE StripRight(_)
StripRight(s) ==
    IF s # <<>> /\ s[Len(s)] = " " THEN StripRight(SubSeq(s, 1, Len(s) - 1)) ELSE s

\* str.strip()
StrStrip(s) == StripRight(StripLeft(s))

\* kw in s
StrContains(s, kw) ==
    \E i \in 0..(Len(s) - Len(kw)) : \A k \in 1..Len(kw) : s[i + k] = kw[k]

\* any(keyword in s for keyword in keywords)
AnyKeywordIn(keywords, s) == \E k \in 1..Len(keywords) : StrContains(s, keywords[k])

Min(S) == CHOOSE x \in S : \A y \in S : x <= y

KW_exchanged_to == <<"e", "x", "c", "h", "a", "n", "g", "e", "d", " ", "t", "o">>
KW_exchanged_from == <<"e", "x", "c", "h", "a", "n", "g", "e", "d", " ", "f", "r", "o", "m">>
KW_vault == <<"v", "a", "u", "l", "t">>
KW_transfer == <<"t", "r", "a", "n", "s", "f", "e", "r">>
KW_mcdonald == <<"m", "c", "d", "o", "n", "a", "l", "d">>
KW_train == <<"t", "r", "a", "i", "n">>
KW_salary == <<"s", "a", "l", "a", "r", "y">>
KW_refund == <<"r", "e", "f", "u", "n", "d">>

C_PLN == <<"P", "L", "N">>
C_USD == <<"U", "S", "D">>
C_EUR == <<"E", "U", "R">>

D_McDonalds == <<"M", "c", "D", "o", "n", "a", "l", "d", "'", "s">>
D_Salary == <<"S", "a", "l", "a", "r", "y", " ", "p", "a", "y", "m", "e", "n", "t", " ",
              "f", "r", "o", "m", " ", "A", "c", "m", "e">>
D_ExchangedTo == <<"E", "x", "c", "h", "a", "n", "g", "e", "d", " ", "t", "o", " ", "E", "U", "R">>
D_Unknown == <<"Q", "z", "x">>
D_Transfer == <<"T", "r", "a", "n", "s", "f", "e", "r", " ", "t", "o", " ", "B", "o", "b">>
D_Refund == <<"T", "w", "i", "s", "t", "o", " ", "r", "e", "f", "u", "n", "d">>

(***************************************************************************)
(* Category classifier (src/notion/category_mapper.py)                     *)
(***************************************************************************)
DEFAULT_CATEGORY == "Other"

\* data/categories.json is not part of the sources: the two ordered keyword
\* tables below are taken from the scenarios of the specification.
EXPENSE_KEYWORDS ==
    << [category |-> "Food", keywords |-> <<KW_mcdonald>>],
       [category |-> "Transport", keywords |-> <<KW_train>>] >>

INCOME_KEYWORDS ==
    << [category |-> "Salary", keywords |-> <<KW_salary>>],
       [category |-> "Repaid", keywords |-> <<KW_refund>>] >>

\* the categories that own an averaged embedding
EmbeddingCategories(keyword_map) ==
    {keyword_map[i].category : i \in {j \in 1..Len(keyword_map) : keyword_map[j].keywords # <<>>}}

\* what the similarity search may answer: the best category or the default
SemanticAnswers(is_income) ==
    EmbeddingCategories(IF is_income THEN INCOME_KEYWORDS ELSE EXPENSE_KEYWORDS)
        \cup {DEFAULT_CATEGORY}

\* _categorize_semantically: the embedding model is an oracle whose answer is `sem`
CategorizeSemantically(description, is_income, sem) ==
    IF description = <<>> THEN DEFAULT_CATEGORY
    ELSE IF sem \in SemanticAnswers(is_income) THEN sem ELSE DEFAULT_CATEGORY

transfer_keywords == <<KW_exchanged_to, KW_exchanged_from, KW_vault, KW_transfer>>

\* the first category, in table order, one of whose keywords is in the description
KeywordMatches(keyword_map, description_lower) ==
    {i \in 1..Len(keyword_map) : AnyKeywordIn(keyword_map[i].keywords, description_lower)}

CategorizeKeywordsFirstMut(description, is_income, sem) ==
    IF description = <<>> THEN DEFAULT_CATEGORY
    ELSE LET description_lower == StrStrip(StrLower(description))
             keyword_map == IF is_income THEN INCOME_KEYWORDS ELSE EXPENSE_KEYWORDS
             hits == KeywordMatches(keyword_map, description_lower)
         IN  IF hits # {} THEN keyword_map[Min(hits)].category
             ELSE IF AnyKeywordIn(transfer_keywords, description_lower) THEN "Transfer"
             ELSE CategorizeSemantically(description, is_income, sem)

categorize_transaction(description, is_income, sem) ==
    IF description = <<>> THEN DEFAULT_CATEGORY
    ELSE LET description_lower == StrStrip(StrLower(description))
             keyword_map == IF is_income THEN INCOME_KEYWORDS ELSE EXPENSE_KEYWORDS
             hits == KeywordMatches(keyword_map, description_lower)
         IN  IF AnyKeywordIn(transfer_keywords, description_lower) THEN "Transfer"
             ELSE IF hits # {} THEN keyword_map[Min(hits)].category
             ELSE CategorizeSemantically(description, is_income, sem)

(***************************************************************************)
(* notion_utils.py: tables and configuration                               *)
(***************************************************************************)
CATEGORY_IDS ==
    [c \in {"Food", "Transport", "Beauty", "Gifts", "Health", "Subscription", "Gym",
            "Travel", "Free Time", "Necessities", "Others", "Transaction"} |->
        CASE c = "Food" -> "12e364a1215e8144817beb04c569ea05"
          [] c = "Transport" -> "12e364a1215e81cdbe08f0a9cbb58a64"
          [] c = "Beauty" -> "12e364a1215e8041bba4dc6a1dfbf0ef"
          [] c = "Gifts" -> "12e364a1215e8103a271fd24cebd6148"
          [] c = "Health" -> "233364a1215e801ba547ed5e48b38d3d"
          [] c = "Subscription" -> "179364a1215e806481bffd675a74e97e"
          [] c = "Gym" -> "12e364a1215e81eea2fcc9acb982d790"
          [] c = "Travel" -> "12e364a1215e8083a389c6dbf7ef8dac"
          [] c = "Free Time" -> "12e364a1215e818e98d0e8abcdadf58c"
          [] c = "Necessities" -> "156364a1215e80dcbebddd89ba57b4ab"
          [] c = "Others" -> "12e364a1215e81999522f7421e1947f0"
          [] c = "Transaction" -> "156364a1215e80e380e6c328a7e5d2e4"]

INCOME_CATEGORY_IDS ==
    [c \in {"Salary", "Parents", "Repaid", "Transaction", "Others"} |->
        CASE c = "Salary" -> "12e364a1215e81e9814ce231403b1207"
          [] c = "Parents" -> "12e364a1215e81ba8da4c0100297cdda"
          [] c = "Repaid" -> "136364a1215e80fab733eb38739b9a1d"
          [] c = "Transaction" -> "25a364a1215e800fad15f09941aa5e19"
          [] c = "Others" -> "12e364a1215e81acbb77f4e668d148d2"]

\* dict.get(key): None when the key is absent
DictGet(d, key) == IF key \in DOMAIN d THEN <<d[key]>> ELSE <<>>

MAX_RETRIES == 3
BASE_DELAY == 1

Now == "now"

is_temporary_error(status_code) == status_code \in {429, 500, 502, 503, 504}

is_permanent_error(status_code) == status_code \in {400, 401, 403, 404, 422}

\* log_failed_transaction: the queue file's content after the call
log_failed_transaction(file, tx, account, is_income, error_info) ==
    Append(file, [transaction |-> tx,
                  account |-> account,
                  is_income |-> is_income,
                  error |-> error_info,
                  timestamp |-> Now,
                  retry_count |-> 0])

(***************************************************************************)
(* The record store and the network, as seen by one create call            *)
(***************************************************************************)
\* requests.post(...) either returns a Response (any status code) or raises
Response(status) == [kind |-> "response", status |-> status]
Raises(kind) == [kind |-> kind, status |-> 0]

\* requests.exceptions.Timeout, .ConnectionError, another RequestException,
\* an exception that is no RequestException
ExceptionKinds == {"Timeout", "ConnectionError", "RequestException", "Exception"}

TemporaryStatuses == {429, 500, 502, 503, 504}
PermanentStatuses == {400, 401, 403, 404, 422}
\* status codes the store may answer with in the post-step specification
AllStatuses == {200, 201, 418} \cup TemporaryStatuses \cup PermanentStatuses

AttemptOutcomes(statuses) ==
    {Response(st) : st \in statuses} \cup {Raises(k) : k \in ExceptionKinds}

(***************************************************************************)
(* retry_with_backoff                                                      *)
(***************************************************************************)
RECURSIVE Pow2(_)
Pow2(n) == IF n = 0 THEN 1 ELSE 2 * Pow2(n - 1)

\* delay = BASE_DELAY * (2 ** attempt)
BackoffDelay(attempt) == BASE_DELAY * Pow2(attempt)

BackoffRetriesAnyResponseMut(o, attempt) ==
    /\ \/ o.kind \in {"Timeout", "ConnectionError"}
       \/ o.kind = "response" /\ o.status # 200
    /\ attempt < MAX_RETRIES - 1

BackoffRetriesOnceMut(o, attempt) ==
    /\ o.kind \in {"Timeout", "ConnectionError"}
    /\ attempt < MAX_RETRIES - 2

BackoffRetriesAnyExceptionMut(o, attempt) ==
    /\ o.kind # "response"
    /\ attempt < MAX_RETRIES - 1

\* the two except clauses that sleep and go round the loop again
BackoffRetries(o, attempt) ==
    /\ o.kind \in {"Timeout", "ConnectionError"}
    /\ attempt < MAX_RETRIES - 1

\* One run of the for loop from `attempt` on; outs[attempt + 1] is what the
\* wrapped call does on that attempt.
RECURSIVE BackoffLoop(_, _, _, _)
BackoffLoop(outs, attempt, calls, sleeps) ==
    LET o == outs[attempt + 1]
        made == Append(calls, o)
    IN  IF attempt >= MAX_RETRIES
        THEN [returned |-> FALSE, status |-> 0, exc |-> calls[Len(calls)].kind,
              calls |-> calls, sleeps |-> sleeps]
        ELSE IF BackoffRetries(o, attempt)
        THEN BackoffLoop(outs, attempt + 1, made, Append(sleeps, BackoffDelay(attempt)))
        ELSE IF o.kind = "response"
        THEN [returned |-> TRUE, status |-> o.status, exc |-> "none",
              calls |-> made, sleeps |-> sleeps]
        ELSE [returned |-> FALSE, status |-> 0, exc |-> o.kind,
              calls |-> made, sleeps |-> sleeps]

retry_with_backoff(outs) == BackoffLoop(outs, 0, <<>>, <<>>)

(***************************************************************************)
(* parse_exchange_currencies: four re.search calls with re.IGNORECASE      *)
(***************************************************************************)
LIT_exchanged_from_ == <<"e", "x", "c", "h", "a", "n", "g", "e", "d", " ", "f", "r", "o", "m", " ">>
LIT_exchanged_to_ == <<"e", "x", "c", "h", "a", "n", "g", "e", "d", " ", "t", "o", " ">>
LIT__exchanged_to_ == <<" ", "e", "x", "c", "h", "a", "n", "g", "e", "d", " ", "t", "o", " ">>
LIT__to_ == <<" ", "t", "o", " ">>

\* the literal `lit` (lower case) matches s at position i, ignoring case
LitAt(s, i, lit) ==
    /\ i >= 1
    /\ i + Len(lit) - 1 <= Len(s)
    /\ \A k \in 1..Len(lit) : LowerChar(s[i + k - 1]) = lit[k]

\* ([A-Z]{3}) matches s at position i, ignoring case
ThreeLettersAt(s, i) ==
    /\ i >= 1
    /\ i + 2 <= Len(s)
    /\ \A k \in 0..2 : IsLetter(s[i + k])

Group(s, i) == StrUpper(SubSeq(s, i, i + 2))

\* r'exchanged from ([A-Z]{3}) to ([A-Z]{3})'
Pattern1(s) ==
    {i \in 1..Len(s) : /\ LitAt(s, i, LIT_exchanged_from_)
                       /\ ThreeLettersAt(s, i + 15)
                       /\ LitAt(s, i + 18, LIT__to_)
                       /\ ThreeLettersAt(s, i + 22)}

\* r'([A-Z]{3}) exchanged to ([A-Z]{3})'
Pattern2(s) ==
    {i \in 1..Len(s) : /\ ThreeLettersAt(s, i)
                       /\ LitAt(s, i + 3, LIT__exchanged_to_)
                       /\ ThreeLettersAt(s, i + 17)}

\* r'exchanged to ([A-Z]{3})'
Pattern3(s) ==
    {i \in 1..Len(s) : LitAt(s, i, LIT_exchanged_to_) /\ ThreeLettersAt(s, i + 13)}

\* r'exchanged from ([A-Z]{3})'
Pattern4(s) ==
    {i \in 1..Len(s) : LitAt(s, i, LIT_exchanged_from_) /\ ThreeLettersAt(s, i + 15)}

\* (source_currency, destination_currency), each None or a currency code
parse_exchange_currencies(description) ==
    IF Pattern1(description) # {}
    THEN LET i == Min(Pattern1(description))
         IN  [source |-> <<Group(description, i + 15)>>,
              dest |-> <<Group(description, i + 22)>>]
    ELSE IF Pattern2(description) # {}
    THEN LET i == Min(Pattern2(description))
         IN  [source |-> <<Group(description, i)>>,
              dest |-> <<Group(description, i + 17)>>]
    ELSE IF Pattern3(description) # {}
    THEN LET i == Min(Pattern3(description))
         IN  [source |-> <<>>, dest |-> <<Group(description, i + 13)>>]
    ELSE IF Pattern4(description) # {}
    THEN LET i == Min(Pattern4(description))
         IN  [source |-> <<Group(description, i + 15)>>, dest |-> <<>>]
    ELSE [source |-> <<>>, dest |-> <<>>]

(***************************************************************************)
(* post_transaction_to_notion_internal                                     *)
(*                                                                         *)
(* `file` is the content of the failure-queue file before the call, `env`  *)
(* what the outside world does during it: env.sem is the answer of the     *)
(* embedding model, env.outs[k] the outcome of the k-th create call.       *)
(* The result says whether the function raised, what it returned, the      *)
(* content of the queue file after it, and the create calls it made.       *)
(***************************************************************************)
InferIsIncomeNoMarkerMut(tx) == tx.amount >= 0

\* lines 200-204: direction when is_income is None
InferIsIncome(tx) ==
    IF StrContains(StrLower(tx.description), KW_exchanged_to)
    THEN tx.amount > 0
    ELSE tx.amount >= 0

\* lines 238-248
CategoryName(tx, is_income, sem) ==
    IF tx.currency \notin {C_USD, C_PLN}
    THEN "Travel"
    ELSE categorize_transaction(tx.description, is_income, sem)

CategoryRelationId(tx, is_income, sem) ==
    IF tx.currency \notin {C_USD, C_PLN}
    THEN DictGet(CATEGORY_IDS, "Travel")
    ELSE IF is_income
         THEN DictGet(INCOME_CATEGORY_IDS, CategoryName(tx, is_income, sem))
         ELSE DictGet(CATEGORY_IDS, CategoryName(tx, is_income, sem))

\* lines 280-283: the else branch formats tx_id, a local that is assigned
\* only at line 300, so it raises UnboundLocalError
BuildPropertiesRaises(category_relation_id) == category_relation_id = <<>>

ClassifyStatusOnly5xxMut(status_code) ==
    IF status_code = 200 THEN "success"
    ELSE IF status_code >= 500 THEN "temporary"
    ELSE IF status_code >= 400 THEN "permanent"
    ELSE "unknown"

ClassifyStatusAny2xxMut(status_code) ==
    IF status_code \in 200..299 THEN "success"
    ELSE IF is_temporary_error(status_code) THEN "temporary"
    ELSE IF is_permanent_error(status_code) THEN "permanent"
    ELSE "unknown"

\* lines 325-361: the if / elif chain on response.status_code
ClassifyStatus(status_code) ==
    IF status_code = 200 THEN "success"
    ELSE IF is_temporary_error(status_code) THEN "temporary"
    ELSE IF is_permanent_error(status_code) THEN "permanent"
    ELSE "unknown"

ResponseErrorInfo(status_code) ==
    [status_code |-> status_code,
     error_type |-> ClassifyStatus(status_code),
     attempt_time |-> Now]

\* lines 363-391: the three except clauses
ExceptionErrorInfo(exc) ==
    [error_type |-> CASE exc = "Timeout" -> "timeout"
                      [] exc = "ConnectionError" -> "connection"
                      [] OTHER -> "exception",
     message |-> CASE exc = "Timeout" -> "Request timed out after retries"
                   [] exc = "ConnectionError" -> "Connection failed after retries"
                   [] OTHER -> "str(e)",
     attempt_time |-> Now]

\* exc: what retry_with_backoff raised ("none" when it returned a response)
PostResult(raised, value, file, backoff, is_income, category) ==
    [raised |-> raised, value |-> value, file |-> file, calls |-> backoff.calls,
     sleeps |-> backoff.sleeps, exc |-> backoff.exc, is_income |-> is_income,
     category |-> category]

NoBackoff == [calls |-> <<>>, sleeps |-> <<>>, exc |-> "none"]

\* lines 321-391: the outcome of the try block, `r` being what
\* retry_with_backoff(make_notion_request) did
AfterRequest(file, tx, account, is_income, category_relation_id, r) ==
    IF r.returned /\ ClassifyStatus(r.status) = "success"
    THEN PostResult(FALSE, TRUE, file, r, <<is_income>>, category_relation_id)
    ELSE PostResult(FALSE, FALSE,
                    log_failed_transaction(file, tx, account, <<is_income>>,
                        IF r.returned THEN ResponseErrorInfo(r.status)
                                      ELSE ExceptionErrorInfo(r.exc)),
                    r, <<is_income>>, category_relation_id)

\* lines 206-391, the direction being resolved
PostAs(file, tx, account, is_income, category_relation_id, env) ==
    IF BuildPropertiesRaises(category_relation_id)
    THEN PostResult(TRUE, FALSE, file, NoBackoff, <<is_income>>, category_relation_id)
    ELSE AfterRequest(file, tx, account, is_income, category_relation_id,
                      retry_with_backoff(env.outs))

ResolveIsIncome(tx, is_income_arg) ==
    IF is_income_arg = <<>> THEN InferIsIncome(tx) ELSE is_income_arg[1]

post_transaction_to_notion_internal(file, tx, account, is_income_arg, env) ==
    PostAs(file, tx, account, ResolveIsIncome(tx, is_income_arg),
           CategoryRelationId(tx, ResolveIsIncome(tx, is_income_arg), env.sem), env)

CriticalErrorInfo ==
    [error_type |-> "critical", message |-> "str(e)", attempt_time |-> Now]

CatchCriticalDropsMut(r, tx, account, is_income_arg) ==
    [r EXCEPT !.raised = FALSE, !.value = FALSE]

\* lines 463-474: the except clause of post_transaction_to_notion
CatchCritical(r, tx, account, is_income_arg) ==
    IF r.raised
    THEN [r EXCEPT !.raised = FALSE,
                   !.value = FALSE,
                   !.file = log_failed_transaction(r.file, tx, account,
                                                   is_income_arg, CriticalErrorInfo)]
    ELSE r

PostWrapperPropagatesMut(file, tx, account, is_income_arg, env) ==
    post_transaction_to_notion_internal(file, tx, account, is_income_arg, env)

\* post_transaction_to_notion: the try / except Exception around the internal step
post_transaction_to_notion(file, tx, account, is_income_arg, env) ==
    CatchCritical(post_transaction_to_notion_internal(file, tx, account, is_income_arg, env),
                  tx, account, is_income_arg)

(***************************************************************************)
(* notion_revolut_connector.py: helpers of main                            *)
(***************************************************************************)
\* a timestamp is <<year, month, day, hour, minute, second>> in UTC
CUTOFF_TIMESTAMP == <<2025, 8, 17, 14, 0, 0>>

RECURSIVE TsLeq(_, _)
TsLeq(a, b) ==
    IF a = <<>> THEN TRUE
    ELSE IF Head(a) # Head(b) THEN Head(a) < Head(b)
    ELSE TsLeq(Tail(a), Tail(b))

\* txns[:10]
TXNS_SLICE == 10
FeedSlice(txns) == SubSeq(txns, 1, IF Len(txns) < TXNS_SLICE THEN Len(txns) ELSE TXNS_SLICE)

AlreadyLoggedNeverMut(tx_id, logged_tx_ids) == FALSE

\* line 179: tx_id in logged_tx_ids
AlreadyLogged(tx_id, logged_tx_ids) == tx_id \in logged_tx_ids

TooOldStrictlyBeforeMut(tx) ==
    tx.timestamp # CUTOFF_TIMESTAMP /\ TsLeq(tx.timestamp, CUTOFF_TIMESTAMP)

\* line 186: tx_time <= CUTOFF_TIMESTAMP
TooOld(tx) == TsLeq(tx.timestamp, CUTOFF_TIMESTAMP)

is_exchange_transaction(tx) ==
    \/ StrContains(StrLower(tx.description), KW_exchanged_to)
    \/ StrContains(StrLower(tx.description), KW_exchanged_from)

\* get_exchange_identifier: the date, and a hash of the normalised description
\* and the time rounded down to the minute; the hash is taken to be injective
get_exchange_identifier(tx) ==
    LET rounded_time == [tx.timestamp EXCEPT ![6] = 0]
    IN  <<SubSeq(rounded_time, 1, 3), StrStrip(StrLower(tx.description)), rounded_time>>

Abs(n) == IF n < 0 THEN -n ELSE n

\* lines 215-222
ExpenseLeg(tx) ==
    LET source_currency == parse_exchange_currencies(tx.description).source
    IN  [tx EXCEPT !.amount = -Abs(tx.amount),
                   !.currency = IF source_currency # <<>> THEN source_currency[1] ELSE @]

\* lines 227-234
IncomeLeg(tx) ==
    LET dest_currency == parse_exchange_currencies(tx.description).dest
    IN  [tx EXCEPT !.amount = Abs(tx.amount),
                   !.currency = IF dest_currency # <<>> THEN dest_currency[1] ELSE @]

SavedLedgerDropsNewMut(logged_tx_ids, new_logged_tx_ids) == logged_tx_ids

\* line 260: what save_logged_transactions writes
SavedLedger(logged_tx_ids, new_logged_tx_ids) == logged_tx_ids \cup new_logged_tx_ids

(***************************************************************************)
(* State                                                                   *)
(***************************************************************************)
VARIABLES
    feed,        \* what the feed source delivers: account_id -> sequence of transactions
    ledgerFile,  \* data/logged_transactions.json: the persisted identifier set
    failedFile,  \* data/failed_transactions.json: the persisted failure queue
    store,       \* per (path, transaction_id, is_income): the post steps made, the
                 \* create calls the record store received, the records it created
    run,         \* the locals of main() while a sync run is in progress, and its result
    retry,       \* the locals of retry_failed_transactions() while a pass is in progress
    lastPosts,   \* the post steps of the latest action, in order, each with its trace
    call,        \* post-step specification: the call to make
    runs,        \* sync runs started
    returned,    \* sync runs that reached the return statement of main()
    passes,      \* retry passes started
    cache,       \* ExchangeRateConverter.cache: cache key -> str(rate)
    cacheFile,   \* data/exchange_rates_cache.json
    FALLBACK_RATES,  \* the module-level table, which convert_to_usd updates
    conversions, \* the convert_to_usd calls made so far, in order, each with its trace
    classified,  \* the categorize_transaction calls made so far, in order
    syncs,       \* two main() running at once: their locals, and what was ever written
    auth         \* the server's event loop, the auth-code storages and the waiting sync

converterVars == <<cache, cacheFile, FALLBACK_RATES, conversions>>

vars == <<feed, ledgerFile, failedFile, store, run, retry, lastPosts, call, runs,
          returned, passes, converterVars, classified, syncs, auth>>

(***************************************************************************)
(* Currency conversion (src/utils/exchange_utils.py)                       *)
(*   - a Decimal is [m, e]: the value m * 10^-e, with the e decimal places *)
(*     decimal.Decimal keeps; amounts and rates are not negative;          *)
(*   - a float is a Decimal without trailing zeros; str() of it prints at  *)
(*     least one decimal place, as repr does;                              *)
(*   - the cache file is reliable storage, as the two other JSON files.    *)
(***************************************************************************)
EXCHANGE_MAX_RETRIES == 3
EXCHANGE_BASE_DELAY == 1

C_GBP == <<"G", "B", "P">>
C_CHF == <<"C", "H", "F">>
C_AED == <<"A", "E", "D">>
C_CAD == <<"C", "A", "D">>
C_TRY == <<"T", "R", "Y">>
C_HUF == <<"H", "U", "F">>

Dec(m, e) == [m |-> m, e |-> e]

RECURSIVE Pow10(_)
Pow10(n) == IF n = 0 THEN 1 ELSE 10 * Pow10(n - 1)

DigitChars == <<"0", "1", "2", "3", "4", "5", "6", "7", "8", "9">>

RECURSIVE Digits(_)
Digits(n) ==
    IF n < 10 THEN <<DigitChars[n + 1]>>
    ELSE Append(Digits(n \div 10), DigitChars[(n % 10) + 1])

RECURSIVE ZeroPad(_, _)
ZeroPad(ds, width) == IF Len(ds) >= width THEN ds ELSE ZeroPad(<<"0">> \o ds, width)

\* str(d) of a Decimal d
DecimalStr(d) ==
    IF d.e = 0 THEN Digits(d.m)
    ELSE SubSeq(ZeroPad(Digits(d.m), d.e + 1), 1,
                Len(ZeroPad(Digits(d.m), d.e + 1)) - d.e)
         \o <<".">>
         \o SubSeq(ZeroPad(Digits(d.m), d.e + 1),
                   Len(ZeroPad(Digits(d.m), d.e + 1)) - d.e + 1,
                   Len(ZeroPad(Digits(d.m), d.e + 1)))

DigitValue(c) == (CHOOSE i \in 1..10 : DigitChars[i] = c) - 1

RECURSIVE DigitsValue(_)
DigitsValue(ds) ==
    IF ds = <<>> THEN 0
    ELSE 10 * DigitsValue(SubSeq(ds, 1, Len(ds) - 1)) + DigitValue(ds[Len(ds)])

\* Decimal(s) of a str of digits with at most one "."
DecimalOfStr(s) ==
    IF \A i \in 1..Len(s) : s[i] # "." THEN Dec(DigitsValue(s), 0)
    ELSE LET p == CHOOSE i \in 1..Len(s) : s[i] = "."
         IN Dec(DigitsValue(SubSeq(s, 1, p - 1) \o SubSeq(s, p + 1, Len(s))), Len(s) - p)

\* float(d) of a Decimal d
RECURSIVE FloatOf(_)
FloatOf(d) == IF d.e > 0 /\ d.m % 10 = 0 THEN FloatOf(Dec(d.m \div 10, d.e - 1)) ELSE d

\* str(x) of a float x
FloatStr(x) == IF x.e = 0 THEN Digits(x.m) \o <<".", "0">> ELSE DecimalStr(x)

\* a * b of two Decimals
DecimalMul(a, b) == Dec(a.m * b.m, a.e + b.e)

\* d.quantize(Decimal("0.01")) in the default context (ROUND_HALF_EVEN)
quantize(d) ==
    IF d.e <= 2 THEN Dec(d.m * Pow10(2 - d.e), 2)
    ELSE Dec((d.m \div Pow10(d.e - 2))
             + (IF \/ 2 * (d.m % Pow10(d.e - 2)) > Pow10(d.e - 2)
                   \/ /\ 2 * (d.m % Pow10(d.e - 2)) = Pow10(d.e - 2)
                      /\ (d.m \div Pow10(d.e - 2)) % 2 = 1
                THEN 1 ELSE 0), 2)

\* lines 13-23
DEFAULT_FALLBACK_RATES ==
    (C_PLN :> Dec(25, 2)) @@ (C_EUR :> Dec(11, 1)) @@ (C_USD :> Dec(1, 0)) @@
    (C_GBP :> Dec(127, 2)) @@ (C_CHF :> Dec(114, 2)) @@ (C_AED :> Dec(27, 2)) @@
    (C_CAD :> Dec(74, 2)) @@ (C_TRY :> Dec(3, 2)) @@ (C_HUF :> Dec(295, 5))

\* lines 33-41: json.load of the cache file
load_cache(file) == file

\* lines 43-50: json.dump of the whole in-memory cache
save_cache(c) == c

\* lines 52-54
get_cache_key(currency, date) == currency \o <<"_">> \o date

\* one requests.get of _api_request_with_retry: a JSON body, or an exception
JsonBody(data) == [kind |-> "json", data |-> data]
HttpError(status) == [kind |-> "http", status |-> status]
RequestRaises(kind) == [kind |-> kind]

\* lines 66-98: the exceptions after which the loop goes on to the next attempt
ApiRetries(o) ==
    \/ o.kind \in {"timeout", "connection"}
    \/ o.kind = "http" /\ o.status >= 500

\* lines 56-109: the attempts made, the delays slept, and the body returned or
\* the exception raised
RECURSIVE ApiLoop(_, _, _)
ApiLoop(outs, attempt, sleeps) ==
    IF outs[attempt + 1].kind = "json"
    THEN [raised |-> FALSE, data |-> outs[attempt + 1].data,
          calls |-> attempt + 1, sleeps |-> sleeps]
    ELSE IF ApiRetries(outs[attempt + 1]) /\ attempt < EXCHANGE_MAX_RETRIES - 1
    THEN ApiLoop(outs, attempt + 1,
                 Append(sleeps, EXCHANGE_BASE_DELAY * Pow2(attempt)))
    ELSE [raised |-> TRUE, data |-> <<>>, calls |-> attempt + 1, sleeps |-> sleeps]

api_request_with_retry(outs) == ApiLoop(outs, 0, <<>>)

\* the outcome of one convert_to_usd: the value returned, the three stores
\* after it, and what it did on the way
Converted(value, source, c, file, fallback, api, lookups, writes) ==
    [value |-> value, source |-> source, cache |-> c, cacheFile |-> file,
     FALLBACK_RATES |-> fallback, remote_calls |-> api.calls, sleeps |-> api.sleeps,
     remote_raised |-> api.raised,
     remote_rate |-> IF /\ ~api.raised
                        /\ "rates" \in DOMAIN api.data
                        /\ "USD" \in DOMAIN api.data.rates
                     THEN <<api.data.rates.USD>> ELSE <<>>,
     cache_lookups |-> lookups, cache_writes |-> writes]

NoApi == [raised |-> FALSE, data |-> <<>>, calls |-> 0, sleeps |-> <<>>]

\* line 133
HasUsdRate(api) ==
    /\ ~api.raised
    /\ "rates" \in DOMAIN api.data
    /\ "USD" \in DOMAIN api.data.rates

\* lines 150-162
FallbackIgnoresTableMut(c, file, fallback, amount, currency, api) ==
    Converted(amount, "original", c, file, fallback, api, 1, 0)

Fallback(c, file, fallback, amount, currency, api) ==
    IF currency \in DOMAIN fallback
    THEN Converted(quantize(DecimalMul(amount, DecimalOfStr(FloatStr(fallback[currency])))),
                   "fallback", c, file, fallback, api, 1, 0)
    ELSE Converted(amount, "original", c, file, fallback, api, 1, 0)

\* lines 134-146
ApiRateNotCachedMut(c, file, fallback, amount, currency, date, api) ==
    Converted(quantize(DecimalMul(amount, DecimalOfStr(FloatStr(api.data.rates.USD)))),
              "api", c, file, fallback, api, 1, 0)

ApiRateKeepsFallbackMut(c, file, fallback, amount, currency, date, api) ==
    Converted(quantize(DecimalMul(amount, DecimalOfStr(FloatStr(api.data.rates.USD)))),
              "api",
              (get_cache_key(currency, date)
                  :> DecimalStr(DecimalOfStr(FloatStr(api.data.rates.USD)))) @@ c,
              save_cache((get_cache_key(currency, date)
                  :> DecimalStr(DecimalOfStr(FloatStr(api.data.rates.USD)))) @@ c),
              fallback, api, 1, 1)

ApiRate(c, file, fallback, amount, currency, date, api) ==
    Converted(quantize(DecimalMul(amount, DecimalOfStr(FloatStr(api.data.rates.USD)))),
              "api",
              (get_cache_key(currency, date)
                  :> DecimalStr(DecimalOfStr(FloatStr(api.data.rates.USD)))) @@ c,
              save_cache((get_cache_key(currency, date)
                  :> DecimalStr(DecimalOfStr(FloatStr(api.data.rates.USD)))) @@ c),
              (currency :> FloatOf(DecimalOfStr(FloatStr(api.data.rates.USD)))) @@ fallback,
              api, 1, 1)

\* lines 127-162: after the cache miss
AfterApi(c, file, fallback, amount, currency, date, api) ==
    IF HasUsdRate(api)
    THEN ApiRate(c, file, fallback, amount, currency, date, api)
    ELSE Fallback(c, file, fallback, amount, currency, api)

\* lines 119-125
CacheHitRefetchesMut(c, file, fallback, amount, currency, date, outs) ==
    AfterApi(c, file, fallback, amount, currency, date, api_request_with_retry(outs))

CacheHitUnroundedMut(c, file, fallback, amount, currency, date, outs) ==
    Converted(DecimalMul(amount, DecimalOfStr(c[get_cache_key(currency, date)])),
              "cache", c, file, fallback, NoApi, 1, 0)

CacheHit(c, file, fallback, amount, currency, date, outs) ==
    Converted(quantize(DecimalMul(amount, DecimalOfStr(c[get_cache_key(currency, date)]))),
              "cache", c, file, fallback, NoApi, 1, 0)

\* lines 116-117
BaseCurrencyConvertsMut(c, file, fallback, amount) ==
    Converted(quantize(DecimalMul(amount, DecimalOfStr(FloatStr(fallback[C_USD])))),
              "fallback", c, file, fallback, NoApi, 1, 0)

BaseCurrency(c, file, fallback, amount) ==
    Converted(amount, "base", c, file, fallback, NoApi, 0, 0)

ConvertRemoteFirstMut(c, file, fallback, amount, currency, date, outs) ==
    IF currency = C_USD THEN BaseCurrency(c, file, fallback, amount)
    ELSE AfterApi(c, file, fallback, amount, currency, date,
                  api_request_with_retry(outs))

\* lines 111-162: convert_to_usd(amount, currency, date) of the converter whose
\* cache is c, given what the rate service answers to the requests
convert_to_usd(c, file, fallback, amount, currency, date, outs) ==
    IF currency = C_USD THEN BaseCurrency(c, file, fallback, amount)
    ELSE IF get_cache_key(currency, date) \in DOMAIN c
    THEN CacheHit(c, file, fallback, amount, currency, date, outs)
    ELSE AfterApi(c, file, fallback, amount, currency, date,
                  api_request_with_retry(outs))

\* the module is imported: the table has its literal values and the singleton
\* of line 165 loads the cache file (absent on a fresh installation)
ConverterAtImport ==
    /\ cacheFile = <<>>
    /\ cache = load_cache(cacheFile)
    /\ FALLBACK_RATES = DEFAULT_FALLBACK_RATES
    /\ conversions = <<>>

ACCOUNTS ==
    << [account_id |-> "acc1", display_name |-> "Main", currency |-> C_PLN],
       [account_id |-> "acc2", display_name |-> "Dollars", currency |-> C_USD] >>

NoCounts == [successful |-> 0, failed |-> 0, skipped |-> 0, total_processed |-> 0]

IdleRun ==
    [pc |-> "idle", logged_tx_ids |-> {}, new_logged_tx_ids |-> {},
     successful_transactions |-> 0, failed_transactions |-> 0, skipped_transactions |-> 0,
     processed_exchanges |-> {}, acct |-> 0, txns |-> <<>>, row |-> 0,
     ended |-> "none", result |-> NoCounts]

\* the server before any request: app.py loaded as module "app", no code stored
NoAuth ==
    [launch |-> "app", code |-> [m \in {"app", "__main__"} |-> <<>>], loop |-> "free",
     pending |-> FALSE, during_wait |-> FALSE, sync |-> "none", waited |-> 0, requests |-> 0]

\* no concurrent runs
NoSyncs == [procs |-> <<>>, grown |-> FALSE, saved |-> {}, appended |-> 0]

IdleRetry ==
    [pc |-> "idle", failed_txs |-> <<>>, i |-> 0, still_failed |-> <<>>,
     successful_retries |-> <<>>, reposts |-> 0, outcomes |-> <<>>, ended |-> "none"]

NoCall == [state |-> "none"]

\* the record store's books
StoreKey(path, tx, is_income) == <<path, tx.transaction_id, is_income>>
StorePosts(k) == IF k \in DOMAIN store THEN store[k].posts ELSE 0
StoreCalls(k) == IF k \in DOMAIN store THEN store[k].calls ELSE 0
StoreCreated(k) == IF k \in DOMAIN store THEN store[k].created ELSE 0

\* the store after the create calls of one post step
StoreAfter(st, path, tx, r) ==
    LET k == StoreKey(path, tx, r.is_income[1])
        old == IF k \in DOMAIN st THEN st[k] ELSE [posts |-> 0, calls |-> 0, created |-> 0]
        new == [posts |-> old.posts + 1,
                calls |-> old.calls + Len(r.calls),
                created |-> old.created + (IF r.value THEN 1 ELSE 0)]
    IN  [x \in DOMAIN st \cup {k} |-> IF x = k THEN new ELSE st[x]]

PostTrace(path, tx, account, is_income_arg, fileBefore, r) ==
    [path |-> path, tx |-> tx, account |-> account, is_income_arg |-> is_income_arg,
     fileBefore |-> fileBefore, r |-> r]

(***************************************************************************)
(* What the outside world may do during one post step                      *)
(***************************************************************************)
\* Sequences of MAX_RETRIES outcomes; an outcome that ends the backoff loop
\* is repeated to the end, the later ones being never asked for.
EnvTraces(outcomes) ==
    {o \in [1..MAX_RETRIES -> outcomes] :
        \A k \in 1..(MAX_RETRIES - 1) :
            o[k].kind \notin {"Timeout", "ConnectionError"} => o[k + 1] = o[k]}

SemChoices == {"Food", DEFAULT_CATEGORY}

Envs(traces) == {[sem |-> sm, outs |-> o] : sm \in SemChoices, o \in traces}

\* the store's behaviours drawn in the sync specification: success, a permanent
\* and a temporary status, three timeouts
SyncTraces ==
    { <<Response(200), Response(200), Response(200)>>,
      <<Response(404), Response(404), Response(404)>>,
      <<Response(503), Response(503), Response(503)>>,
      <<Raises("Timeout"), Raises("Timeout"), Raises("Timeout")>> }

SyncEnvs == Envs(SyncTraces)

(***************************************************************************)
(* main(): one sync run                                                    *)
(***************************************************************************)
\* lines 141-170: token, ledger load, counters, get_accounts
MainStart ==
    /\ run.pc = "idle" /\ retry.pc = "idle"
    /\ runs < MaxRuns
    /\ runs' = runs + 1
    /\ run' = [IdleRun EXCEPT !.pc = "accounts",
                              !.logged_tx_ids = ledgerFile,
                              !.acct = 1]
    /\ lastPosts' = <<>>
    /\ UNCHANGED <<feed, ledgerFile, failedFile, store, retry, call, returned, passes, converterVars, classified, syncs, auth>>

\* lines 141-170 when the token exchange or get_accounts raises
MainStartRaises ==
    /\ run.pc = "idle" /\ retry.pc = "idle"
    /\ runs < MaxRuns
    /\ runs' = runs + 1
    /\ run' = [IdleRun EXCEPT !.ended = "raised"]
    /\ lastPosts' = <<>>
    /\ UNCHANGED <<feed, ledgerFile, failedFile, store, retry, call, returned, passes, converterVars, classified, syncs, auth>>

\* after the rows of one account: the next account, or the end of the loop
AfterRows(r) == [r EXCEPT !.pc = "accounts", !.acct = @ + 1, !.txns = <<>>, !.row = 0]

\* lines 172-175: get_transactions returns the account's rows
MainFetch ==
    /\ run.pc = "accounts"
    /\ run.acct <= Len(ACCOUNTS)
    /\ LET txns == FeedSlice(feed[ACCOUNTS[run.acct].account_id])
       IN  run' = IF txns = <<>> THEN AfterRows(run)
                  ELSE [run EXCEPT !.pc = "rows", !.txns = txns, !.row = 1]
    /\ lastPosts' = <<>>
    /\ UNCHANGED <<feed, ledgerFile, failedFile, store, retry, call, runs, returned, passes, converterVars, classified, syncs, auth>>

\* line 174 when get_transactions raises (raise_for_status): main ends there
MainFetchRaises ==
    /\ run.pc = "accounts"
    /\ run.acct <= Len(ACCOUNTS)
    /\ run' = [IdleRun EXCEPT !.ended = "raised"]
    /\ lastPosts' = <<>>
    /\ UNCHANGED <<feed, ledgerFile, failedFile, store, retry, call, runs, returned, passes, converterVars, classified, syncs, auth>>

Skip(r) == [r EXCEPT !.skipped_transactions = @ + 1]

CountAlwaysSuccessfulMut(r, success) == [r EXCEPT !.successful_transactions = @ + 1]

\* lines 238-243 and 251-254: one of the two counters
Count(r, success) ==
    IF success THEN [r EXCEPT !.successful_transactions = @ + 1]
               ELSE [r EXCEPT !.failed_transactions = @ + 1]

RowResult(r, file, st, posts) == [run |-> r, file |-> file, store |-> st, posts |-> posts]

\* lines 247-257: a regular transaction, `p` being its post step
RegularRow(r, file, st, tx, account, is_income, p) ==
    RowResult([Count(r, p.value) EXCEPT !.new_logged_tx_ids = @ \cup {tx.transaction_id}],
              p.file,
              StoreAfter(st, "sync", tx, p),
              <<PostTrace("sync", tx, account, <<is_income>>, file, p)>>)

\* lines 238-257: after both legs, `e` and `n` being their post steps
ExchangeRow(r, file, st, tx, account, expense_tx, income_tx, e, n) ==
    RowResult([Count(r, n.value /\ e.value) EXCEPT
                  !.processed_exchanges = @ \cup {get_exchange_identifier(tx)},
                  !.new_logged_tx_ids = @ \cup {tx.transaction_id}],
              n.file,
              StoreAfter(StoreAfter(st, "sync", expense_tx, e), "sync", income_tx, n),
              <<PostTrace("sync", expense_tx, account, <<FALSE>>, file, e),
                PostTrace("sync", income_tx, account, <<TRUE>>, e.file, n)>>)

IncomeOnlyAfterSuccessMut(r, file, st, tx, account, expense_tx, income_tx, e, env2) ==
    IF e.value
    THEN ExchangeRow(r, file, st, tx, account, expense_tx, income_tx, e,
                     post_transaction_to_notion(e.file, income_tx, account, <<TRUE>>, env2))
    ELSE RegularRow(r, file, st, expense_tx, account, FALSE, e)

\* lines 226-236: the income leg is posted after the expense leg, whatever `e` is
IncomeAfterExpense(r, file, st, tx, account, expense_tx, income_tx, e, env2) ==
    ExchangeRow(r, file, st, tx, account, expense_tx, income_tx, e,
                post_transaction_to_notion(e.file, income_tx, account, <<TRUE>>, env2))

\* lines 178-257: the body of the loop over the rows, for the row `tx`.
\* The result is main's locals, the queue file, the store and the post steps made.
RowBody(r, file, st, tx, account, env1, env2) ==
    IF AlreadyLogged(tx.transaction_id, r.logged_tx_ids)
    THEN RowResult(Skip(r), file, st, <<>>)
    ELSE IF TooOld(tx)
    THEN RowResult(Skip(r), file, st, <<>>)
    ELSE IF is_exchange_transaction(tx)
    THEN IF get_exchange_identifier(tx) \in r.processed_exchanges
         THEN RowResult(Skip(r), file, st, <<>>)
         ELSE IncomeAfterExpense(r, file, st, tx, account, ExpenseLeg(tx), IncomeLeg(tx),
                  post_transaction_to_notion(file, ExpenseLeg(tx), account, <<FALSE>>, env1),
                  env2)
    ELSE RegularRow(r, file, st, tx, account, tx.amount >= 0,
                    post_transaction_to_notion(file, tx, account, <<tx.amount >= 0>>, env1))

\* one iteration of `for tx in txns[:10]`
MainRowApply(b) ==
    /\ run' = IF run.row = Len(run.txns) THEN AfterRows(b.run)
              ELSE [b.run EXCEPT !.row = @ + 1]
    /\ failedFile' = b.file
    /\ store' = b.store
    /\ lastPosts' = b.posts

MainRow ==
    /\ run.pc = "rows"
    /\ \E env1 \in SyncEnvs :
       \E env2 \in (IF is_exchange_transaction(run.txns[run.row]) THEN SyncEnvs ELSE {env1}) :
          MainRowApply(RowBody(run, failedFile, store, run.txns[run.row],
                               ACCOUNTS[run.acct], env1, env2))
    /\ UNCHANGED <<feed, ledgerFile, retry, call, runs, returned, passes, converterVars, classified, syncs, auth>>

\* lines 259-279: save the ledger, return the counts
MainSave ==
    /\ run.pc = "accounts"
    /\ run.acct > Len(ACCOUNTS)
    /\ ledgerFile' = SavedLedger(run.logged_tx_ids, run.new_logged_tx_ids)
    /\ run' = [IdleRun EXCEPT
                  !.ended = "returned",
                  !.result = [successful |-> run.successful_transactions,
                              failed |-> run.failed_transactions,
                              skipped |-> run.skipped_transactions,
                              total_processed |-> run.successful_transactions
                                                    + run.failed_transactions]]
    /\ returned' = returned + 1
    /\ lastPosts' = <<>>
    /\ UNCHANGED <<feed, failedFile, store, retry, call, runs, passes, converterVars, classified, syncs, auth>>

(***************************************************************************)
(* retry_failed_transactions(): one retry pass                             *)
(***************************************************************************)
\* lines 396-414: load the queue file; nothing to do without records.
\* retry.reposts counts the calls of the post step made by the pass, and
\* retry.outcomes[k] says what the pass did with failed_txs[k].
RetryStart ==
    /\ run.pc = "idle" /\ retry.pc = "idle"
    /\ passes < MaxPasses
    /\ passes' = passes + 1
    /\ retry' = IF failedFile = <<>>
                THEN [IdleRetry EXCEPT !.ended = "returned"]
                ELSE [IdleRetry EXCEPT !.pc = "loop", !.failed_txs = failedFile, !.i = 1]
    /\ lastPosts' = <<>>
    /\ UNCHANGED <<feed, ledgerFile, failedFile, store, run, call, runs, returned, converterVars, classified, syncs, auth>>

IsPermanentNeverMut(failed_tx) == FALSE

\* line 418: failed_tx.get("error", {}).get("error_type") == "permanent"
IsPermanent(failed_tx) ==
    /\ "error" \in DOMAIN failed_tx
    /\ "error_type" \in DOMAIN failed_tx.error
    /\ failed_tx.error.error_type = "permanent"

StillFailedKeepsCountMut(failed_tx) == [failed_tx EXCEPT !.retry_count = @]

StillFailedReclassifiedMut(failed_tx) ==
    [x \in DOMAIN failed_tx \cup {"last_retry"} |->
        IF x = "retry_count" THEN failed_tx.retry_count + 1
        ELSE IF x = "last_retry" THEN Now
        ELSE IF x = "error" THEN [failed_tx.error EXCEPT !.error_type = "permanent"]
        ELSE failed_tx[x]]

\* lines 435-436: the record kept after a failed re-post
StillFailed(failed_tx) ==
    [x \in DOMAIN failed_tx \cup {"last_retry"} |->
        IF x = "retry_count" THEN failed_tx.retry_count + 1
        ELSE IF x = "last_retry" THEN Now
        ELSE failed_tx[x]]

\* lines 428-437: after the re-post `p` of failed_tx
RetryStepApply(failed_tx, p) ==
    /\ retry' = IF p.raised
                THEN [retry EXCEPT !.pc = "idle", !.ended = "raised", !.reposts = @ + 1]
                ELSE IF p.value
                THEN [retry EXCEPT !.successful_retries = Append(@, failed_tx),
                                   !.outcomes = Append(@, "succeeded"),
                                   !.reposts = @ + 1, !.i = @ + 1]
                ELSE [retry EXCEPT !.still_failed = Append(@, StillFailed(failed_tx)),
                                   !.outcomes = Append(@, "failed"),
                                   !.reposts = @ + 1, !.i = @ + 1]
    /\ failedFile' = p.file
    /\ store' = StoreAfter(store, "retry", failed_tx.transaction, p)
    /\ lastPosts' = <<PostTrace("retry", failed_tx.transaction, failed_tx.account,
                                failed_tx.is_income, failedFile, p)>>

\* lines 416-437: one iteration of `for failed_tx in failed_txs`, the outside
\* world behaving as one of `envs`; an exception of the post step leaves the
\* function there
RetryStepIn(envs) ==
    /\ retry.pc = "loop"
    /\ retry.i <= Len(retry.failed_txs)
    /\ IF IsPermanent(retry.failed_txs[retry.i])
       THEN /\ retry' = [retry EXCEPT !.still_failed = Append(@, retry.failed_txs[retry.i]),
                                      !.outcomes = Append(@, "terminal"),
                                      !.i = @ + 1]
            /\ lastPosts' = <<>>
            /\ UNCHANGED <<failedFile, store>>
       ELSE \E env \in envs :
              RetryStepApply(retry.failed_txs[retry.i],
                  post_transaction_to_notion_internal(
                      failedFile, retry.failed_txs[retry.i].transaction,
                      retry.failed_txs[retry.i].account,
                      retry.failed_txs[retry.i].is_income, env))
    /\ UNCHANGED <<feed, ledgerFile, run, call, runs, returned, passes, converterVars, classified, syncs, auth>>

RetryStep == RetryStepIn(SyncEnvs)

QueueAfterPassKeepsAllMut(failed_txs, still_failed) == failed_txs

\* lines 441-442: json.dump(still_failed, f)
QueueAfterPass(failed_txs, still_failed) == still_failed

\* lines 439-447: rewrite the queue file with the records that still fail
RetryFinish ==
    /\ retry.pc = "loop"
    /\ retry.i > Len(retry.failed_txs)
    /\ failedFile' = QueueAfterPass(retry.failed_txs, retry.still_failed)
    /\ retry' = [retry EXCEPT !.pc = "idle", !.ended = "returned"]
    /\ lastPosts' = <<>>
    /\ UNCHANGED <<feed, ledgerFile, store, run, call, runs, returned, passes, converterVars, classified, syncs, auth>>

(***************************************************************************)
(* The feeds of the sync specification                                     *)
(***************************************************************************)
TS_NEW == <<2025, 8, 17, 14, 0, 1>>
TS_NEW_SAME_MINUTE == <<2025, 8, 17, 14, 0, 30>>
TS_LATER == <<2025, 9, 1, 9, 30, 0>>
TS_BEFORE == <<2025, 8, 17, 13, 59, 59>>

Tx(id, amount, currency, description, timestamp) ==
    [transaction_id |-> id, amount |-> amount, currency |-> currency,
     description |-> description, timestamp |-> timestamp]

T1 == Tx("t1", -5, C_PLN, D_McDonalds, TS_NEW)
T2 == Tx("t2", 7, C_USD, D_Salary, TS_LATER)
T3 == Tx("t3", -3, C_PLN, D_McDonalds, CUTOFF_TIMESTAMP)
T4 == Tx("t4", -2, C_EUR, D_Unknown, TS_LATER)
T5 == Tx("t5", -4, C_PLN, D_Transfer, TS_LATER)
T6 == Tx("t6", -6, C_USD, D_Unknown, TS_NEW)
X1 == Tx("x1", -5, C_PLN, D_ExchangedTo, TS_NEW)
X2 == Tx("x2", 1, C_EUR, D_ExchangedTo, TS_NEW_SAME_MINUTE)

\* ten rows at or before the cutoff, then a new one that txns[:10] leaves out
OldRows == [i \in 1..TXNS_SLICE |->
               Tx(<<"old", i>>, -1, C_PLN, D_McDonalds, TS_BEFORE)]

FeedOf(rows1, rows2) == [a \in {"acc1", "acc2"} |-> IF a = "acc1" THEN rows1 ELSE rows2]

\* an exchange between two currencies that are neither USD nor PLN
X3 == Tx("x3", -5, <<"G", "B", "P">>, D_ExchangedTo, TS_NEW)

FeedChoices ==
    { FeedOf(<<T1, T3>>, <<>>),
      FeedOf(<<X1>>, <<X2>>),
      FeedOf(<<T5, T6>>, <<T4>>),
      FeedOf(OldRows \o <<T2>>, <<>>) }

(***************************************************************************)
(* Specification of the sync runs and retry passes                         *)
(***************************************************************************)
EmptyStore == [k \in {} |-> [posts |-> 0, calls |-> 0, created |-> 0]]

Init ==
    /\ feed \in FeedChoices
    /\ ledgerFile = {}
    /\ failedFile = <<>>
    /\ store = EmptyStore
    /\ run = IdleRun
    /\ retry = IdleRetry
    /\ lastPosts = <<>>
    /\ call = NoCall
    /\ runs = 0
    /\ returned = 0
    /\ passes = 0
    /\ ConverterAtImport
    /\ classified = <<>>
    /\ syncs = NoSyncs
    /\ auth = NoAuth

Next ==
    \/ MainStart
    \/ MainStartRaises
    \/ MainFetch
    \/ MainFetchRaises
    \/ MainRow
    \/ MainSave
    \/ RetryStart
    \/ RetryStep
    \/ RetryFinish

Spec == Init /\ [][Next]_vars

(***************************************************************************)
(* Specification of the post step alone: Init draws the call and what the  *)
(* outside world does during it, PostCall makes the call                   *)
(***************************************************************************)
\* rows of amount zero: an ordinary one and one with the exchange marker
Z1 == Tx("z1", 0, C_PLN, D_McDonalds, TS_NEW)
Z2 == Tx("z2", 0, C_PLN, D_ExchangedTo, TS_NEW)

PostTxs == {T1, T2, T4, T5, T6, X1, Z1, Z2}

PostArgs == {<<>>, <<TRUE>>, <<FALSE>>}

PostEnvs == Envs(EnvTraces(AttemptOutcomes(AllStatuses)))

\* a record already in the queue file before the call
EarlierFailure ==
    log_failed_transaction(<<>>, T3, ACCOUNTS[1], <<FALSE>>, ResponseErrorInfo(500))

InitPost ==
    /\ feed = FeedOf(<<>>, <<>>)
    /\ ledgerFile = {}
    /\ failedFile \in {<<>>, EarlierFailure}
    /\ store = EmptyStore
    /\ run = IdleRun
    /\ retry = IdleRetry
    /\ lastPosts = <<>>
    /\ call \in {[state |-> "ready", tx |-> tx, account |-> ACCOUNTS[1],
                  is_income_arg |-> a, env |-> env] :
                     tx \in PostTxs, a \in PostArgs, env \in PostEnvs}
    /\ runs = 0
    /\ returned = 0
    /\ passes = 0
    /\ ConverterAtImport
    /\ classified = <<>>
    /\ syncs = NoSyncs
    /\ auth = NoAuth

PostCallApply(p) ==
    /\ failedFile' = p.file
    /\ store' = StoreAfter(store, "post", call.tx, p)
    /\ lastPosts' = <<PostTrace("post", call.tx, call.account, call.is_income_arg,
                                failedFile, p)>>

PostCall ==
    /\ call.state = "ready"
    /\ PostCallApply(post_transaction_to_notion(failedFile, call.tx, call.account,
                                                call.is_income_arg, call.env))
    /\ call' = [call EXCEPT !.state = "done"]
    /\ UNCHANGED <<feed, ledgerFile, run, retry, runs, returned, passes, converterVars, classified, syncs, auth>>

NextPost == PostCall

SpecPost == InitPost /\ [][NextPost]_vars

(***************************************************************************)
(* Specification of the retry passes alone: Init draws the queue file      *)
(***************************************************************************)
\* failure records as the post step writes them
QueueRecords ==
    { log_failed_transaction(<<>>, T1, ACCOUNTS[1], <<FALSE>>, ResponseErrorInfo(503))[1],
      log_failed_transaction(<<>>, T2, ACCOUNTS[2], <<TRUE>>, ResponseErrorInfo(404))[1],
      log_failed_transaction(<<>>, T4, ACCOUNTS[2], <<FALSE>>, ExceptionErrorInfo("Timeout"))[1],
      log_failed_transaction(<<>>, T5, ACCOUNTS[1], <<FALSE>>, CriticalErrorInfo)[1] }

QueueChoices == UNION {[1..n -> QueueRecords] : n \in 1..MaxQueue}

InitRetry ==
    /\ feed = FeedOf(<<>>, <<>>)
    /\ ledgerFile = {}
    /\ failedFile \in QueueChoices
    /\ store = EmptyStore
    /\ run = IdleRun
    /\ retry = IdleRetry
    /\ lastPosts = <<>>
    /\ call = NoCall
    /\ runs = 0
    /\ returned = 0
    /\ passes = 0
    /\ ConverterAtImport
    /\ classified = <<>>
    /\ syncs = NoSyncs
    /\ auth = NoAuth

NextRetry ==
    \/ RetryStart
    \/ RetryStep
    \/ RetryFinish

SpecRetry == InitRetry /\ [][NextRetry]_vars

(***************************************************************************)
(* What the sync path did for one transaction identifier, over both        *)
(* directions                                                              *)
(***************************************************************************)
SyncPosts(id) == StorePosts(<<"sync", id, TRUE>>) + StorePosts(<<"sync", id, FALSE>>)
SyncCalls(id) == StoreCalls(<<"sync", id, TRUE>>) + StoreCalls(<<"sync", id, FALSE>>)
SyncCreated(id) == StoreCreated(<<"sync", id, TRUE>>) + StoreCreated(<<"sync", id, FALSE>>)

\* the row main() is about to process
CurrentRow == run.txns[run.row]

PostableRows ==
    {ak \in UNION {{<<a, k>> : k \in 1..Len(feed[a])} : a \in DOMAIN feed} :
        /\ ~is_exchange_transaction(feed[ak[1]][ak[2]])
        /\ ~TooOld(feed[ak[1]][ak[2]])}

C3_CreatedAtMostOnce ==
    \A k \in DOMAIN store : k[1] = "sync" => store[k].created <= 1

(***************************************************************************)
(* Properties of one post step (specification SpecPost)                    *)
(***************************************************************************)
\* the post step made by PostCall, and the record it put last in the queue
ThePost == lastPosts[1].r
QueueBefore == lastPosts[1].fileBefore
LastQueued == failedFile[Len(failedFile)]

\* C4: post_transaction_to_notion never raises to its caller; it returns True
\* exactly when its last create call was answered with status 200, and then
\* the failure queue is as it was; on every False return the queue is the old
\* queue followed by exactly one record, for that transaction and account,
\* with retry_count 0.
C4_PostReturnContract ==
    call.state = "done"
        => /\ ~ThePost.raised
           /\ ThePost.value <=>
                 /\ ThePost.calls # <<>>
                 /\ ThePost.calls[Len(ThePost.calls)] = [kind |-> "response", status |-> 200]
           /\ failedFile = ThePost.file
           /\ ThePost.value => failedFile = QueueBefore
           /\ ~ThePost.value =>
                 /\ Len(failedFile) = Len(QueueBefore) + 1
                 /\ SubSeq(failedFile, 1, Len(QueueBefore)) = QueueBefore
                 /\ LastQueued.retry_count = 0
                 /\ LastQueued.transaction = call.tx
                 /\ LastQueued.account = call.account

\* C4 witness: the internal step raised before any create call, the caller
\* got False, and one "critical" record follows the record queued earlier.
C4_Witness ==
    /\ call.state = "done"
    /\ ~ThePost.value
    /\ ThePost.calls = <<>>
    /\ QueueBefore # <<>>
    /\ Len(failedFile) = Len(QueueBefore) + 1
    /\ LastQueued.error.error_type = "critical"
    /\ LastQueued.retry_count = 0

\* the post step ended with a response of the record store, of this status
AnsweredWith(status) ==
    /\ call.state = "done"
    /\ ThePost.calls # <<>>
    /\ ThePost.calls[Len(ThePost.calls)] = [kind |-> "response", status |-> status]

\* C5: no status is both temporary and permanent; a post step answered with
\* 429, 500, 502, 503 or 504 queues one record of error_type "temporary", one
\* answered with 400, 401, 403, 404 or 422 queues one of error_type
\* "permanent", each with the status code and a False return; one answered
\* with 200 queues nothing and returns True; any other status is queued as
\* neither temporary nor permanent.
C5_StatusClassification ==
    /\ \A s \in 100..599 : ~(is_temporary_error(s) /\ is_permanent_error(s))
    /\ \A s \in AllStatuses :
          AnsweredWith(s)
             => IF s = 200
                THEN ThePost.value /\ failedFile = QueueBefore
                ELSE /\ ~ThePost.value
                     /\ Len(failedFile) = Len(QueueBefore) + 1
                     /\ LastQueued.error.status_code = s
                     /\ LastQueued.error.error_type =
                           (IF s \in {429, 500, 502, 503, 504} THEN "temporary"
                            ELSE IF s \in {400, 401, 403, 404, 422} THEN "permanent"
                            ELSE "unknown")

\* C5 witness: a post step answered with 429 has queued a "temporary" record.
C5_Witness ==
    /\ AnsweredWith(429)
    /\ ~ThePost.value
    /\ LastQueued.error.error_type = "temporary"
    /\ LastQueued.error.status_code = 429

\* the create calls of the post step that ended with a timeout or connection error
NetworkFailures ==
    {k \in 1..Len(ThePost.calls) : ThePost.calls[k].kind \in {"Timeout", "ConnectionError"}}

\* C9 as stated: at most 3 calls, a further attempt only after a timeout or a
\* connection error, and a sleep after each such failure with the delays
\* 1, 2, 4 in turn; any other exception ends the loop at once and is re-raised.
C9_SleepsOneTwoFour ==
    (call.state = "done" /\ ThePost.calls # <<>>)
        => /\ Len(ThePost.calls) <= 3
           /\ \A k \in 1..(Len(ThePost.calls) - 1) : k \in NetworkFailures
           /\ ThePost.sleeps = SubSeq(<<1, 2, 4>>, 1, Cardinality(NetworkFailures))
           /\ ThePost.calls[Len(ThePost.calls)].kind # "response"
                 => ThePost.exc = ThePost.calls[Len(ThePost.calls)].kind

\* C9 amended: retry_with_backoff makes at most 3 calls, the k-th being what
\* the wrapped operation does on its k-th attempt; every call but the last
\* ended with a timeout or a connection error, and fewer than 3 calls are made
\* only if the last one did not; it sleeps once between two consecutive calls
\* and not after the last, so the delays are 1 and then 2 and 4 is never
\* slept; an exception of the last call is re-raised, and any exception
\* other than a timeout or connection error ends the loop at the call that
\* raised it.
C9_BackoffAttempts ==
    (call.state = "done" /\ ThePost.calls # <<>>)
        => /\ Len(ThePost.calls) <= 3
           /\ \A k \in 1..Len(ThePost.calls) : ThePost.calls[k] = call.env.outs[k]
           /\ \A k \in 1..(Len(ThePost.calls) - 1) : k \in NetworkFailures
           /\ Len(ThePost.calls) < 3 => Len(ThePost.calls) \notin NetworkFailures
           /\ ThePost.sleeps = SubSeq(<<1, 2>>, 1, Len(ThePost.calls) - 1)
           /\ ThePost.calls[Len(ThePost.calls)].kind # "response"
                 => /\ ThePost.exc = ThePost.calls[Len(ThePost.calls)].kind
                    /\ ~ThePost.value
           /\ ThePost.calls[1].kind \in {"RequestException", "Exception"}
                 => Len(ThePost.calls) = 1 /\ ThePost.sleeps = <<>>

\* C9 witness: three calls that all timed out, sleeps of 1 and 2 between them,
\* and the timeout re-raised.
C9_Witness ==
    /\ call.state = "done"
    /\ Len(ThePost.calls) = 3
    /\ NetworkFailures = {1, 2, 3}
    /\ ThePost.sleeps = <<1, 2>>
    /\ ThePost.exc = "Timeout"

\* C10: no create call follows a response of the record store, whatever its
\* status: a post step whose first create call is answered makes exactly one
\* create call, and an answer other than 200 is queued with its status code.
C10_ResponseIsNotRetried ==
    call.state = "done"
        => /\ \A k \in 1..Len(ThePost.calls) :
                 ThePost.calls[k].kind = "response" => k = Len(ThePost.calls)
           /\ (ThePost.calls # <<>> /\ call.env.outs[1].kind = "response")
                 => /\ Len(ThePost.calls) = 1
                    /\ StoreCalls(StoreKey("post", call.tx, ThePost.is_income[1])) = 1
                    /\ call.env.outs[1].status # 200
                          => /\ Len(failedFile) = Len(QueueBefore) + 1
                             /\ LastQueued.error.status_code = call.env.outs[1].status

\* C10 witness: the first create call was answered with 503; it is the only
\* call, and the record is queued.
C10_Witness ==
    /\ AnsweredWith(503)
    /\ call.env.outs = <<[kind |-> "response", status |-> 503],
                         [kind |-> "response", status |-> 503],
                         [kind |-> "response", status |-> 503]>>
    /\ Len(ThePost.calls) = 1
    /\ LastQueued.error.status_code = 503

(***************************************************************************)
(* Properties of the retry passes (specification SpecRetry)                *)
(***************************************************************************)
\* a pass over a non-empty queue has reached its end and rewritten the file
PassReturned ==
    /\ retry.pc = "idle"
    /\ retry.ended = "returned"
    /\ retry.failed_txs # <<>>

TerminalRecord(failed_tx) == failed_tx.error.error_type = "permanent"

\* the positions of the loaded queue whose record the pass did not post successfully
KeptPositions == {i \in 1..Len(retry.failed_txs) : retry.outcomes[i] # "succeeded"}

\* the j-th of them
KeptPosition(j) ==
    CHOOSE i \in KeptPositions : Cardinality({k \in KeptPositions : k < i}) = j - 1

\* C6: when a pass has loaded N records, M of them of error_type "permanent",
\* and the re-post of each of the others succeeded, the queue file holds
\* exactly the M permanent records, unchanged and in their order, and the
\* pass called the post step exactly N - M times.
C6_RetryConvergence ==
    (/\ PassReturned
     /\ \A i \in 1..Len(retry.failed_txs) :
           ~TerminalRecord(retry.failed_txs[i]) => retry.outcomes[i] = "succeeded")
        => /\ failedFile = SelectSeq(retry.failed_txs, TerminalRecord)
           /\ retry.reposts = Len(retry.failed_txs)
                                 - Len(SelectSeq(retry.failed_txs, TerminalRecord))

\* C6 witness: of two loaded records the first was re-posted with success and
\* the second is permanent; the queue holds the second one only.
C6_Witness ==
    /\ PassReturned
    /\ Len(retry.failed_txs) = 2
    /\ ~TerminalRecord(retry.failed_txs[1])
    /\ TerminalRecord(retry.failed_txs[2])
    /\ retry.outcomes = <<"succeeded", "terminal">>
    /\ failedFile = <<retry.failed_txs[2]>>
    /\ retry.reposts = 1

\* C7: after a pass has returned, the queue file holds, in the order of the
\* loaded queue, one record for each loaded record that is permanent or whose
\* re-post failed, and none for a record whose re-post succeeded; a permanent
\* record is unchanged, and a record whose re-post failed has retry_count one
\* greater, last_retry set, and every other field unchanged.
C7_QueueAfterPass ==
    PassReturned
        => /\ Len(retry.outcomes) = Len(retry.failed_txs)
           /\ \A i \in 1..Len(retry.failed_txs) :
                 retry.outcomes[i] = "terminal" <=> TerminalRecord(retry.failed_txs[i])
           /\ Len(failedFile) = Cardinality(KeptPositions)
           /\ \A j \in 1..Len(failedFile) :
                 LET old == retry.failed_txs[KeptPosition(j)]
                     new == failedFile[j]
                 IN  IF retry.outcomes[KeptPosition(j)] = "terminal"
                     THEN new = old
                     ELSE /\ DOMAIN new = DOMAIN old \cup {"last_retry"}
                          /\ new.retry_count = old.retry_count + 1
                          /\ new.last_retry = Now
                          /\ \A f \in DOMAIN old \ {"retry_count", "last_retry"} :
                                new[f] = old[f]

\* C7 witness: of two loaded records the re-post of the first failed and that
\* of the second succeeded; the queue holds the first with retry_count 1.
C7_Witness ==
    /\ PassReturned
    /\ retry.outcomes = <<"failed", "succeeded">>
    /\ Len(failedFile) = 1
    /\ failedFile[1].retry_count = retry.failed_txs[1].retry_count + 1
    /\ failedFile[1].transaction = retry.failed_txs[1].transaction

C11_NetworkExhaustion ==
    (call.state = "done" /\ ThePost.calls # <<>>)
        => /\ NetworkFailures = 1..Len(ThePost.calls)
                 => /\ Len(ThePost.calls) = 3
                    /\ ~ThePost.value
                    /\ Len(failedFile) = Len(QueueBefore) + 1
                    /\ SubSeq(failedFile, 1, Len(QueueBefore)) = QueueBefore
                    /\ LastQueued.transaction = call.tx
                    /\ LastQueued.retry_count = 0
                    /\ LastQueued.error.error_type =
                          (IF ThePost.calls[3].kind = "Timeout" THEN "timeout"
                                                                 ELSE "connection")
           /\ (\E k \in 1..Len(ThePost.calls) :
                  ThePost.calls[k] = [kind |-> "response", status |-> 200])
                 => /\ Len(ThePost.calls) <= 3
                    /\ ThePost.value
                    /\ failedFile = QueueBefore
           /\ (\E k \in 1..3 :
                  /\ call.env.outs[k] = [kind |-> "response", status |-> 200]
                  /\ \A j \in 1..(k - 1) :
                        call.env.outs[j].kind \in {"Timeout", "ConnectionError"})
                 => ThePost.value /\ failedFile = QueueBefore

\* C11 witness: a timeout and two connection failures, three create calls,
\* one "connection" record queued.
C11_Witness ==
    /\ call.state = "done"
    /\ Len(ThePost.calls) = 3
    /\ ThePost.calls[1].kind = "Timeout"
    /\ ThePost.calls[2].kind = "ConnectionError"
    /\ ThePost.calls[3].kind = "ConnectionError"
    /\ ~ThePost.value
    /\ LastQueued.error.error_type = "connection"
    /\ Len(failedFile) = Len(QueueBefore) + 1

(***************************************************************************)
(* Further properties of the sync runs (specification Spec)                *)
(***************************************************************************)
\* the number of post steps of the latest action that returned False
FailedPosts == Cardinality({k \in 1..Len(lastPosts) : ~lastPosts[k].r.value})

\* C12: the step of a sync run for an exchange row that is not skipped makes
\* two post steps in this order, the expense leg (negative amount, is_income
\* False) and then the income leg (positive amount, is_income True), the
\* second starting from the queue file the first left, whatever the first
\* returned; neither raises; the queue file grows by one record per leg that
\* returned False, in leg order; and the identifier, not yet among the run's
\* new identifiers before the step, is among them after it.
C12_ExchangeLegs ==
    [][(/\ run.pc = "rows"
        /\ CurrentRow.transaction_id \notin ledgerFile
        /\ ~TooOld(CurrentRow)
        /\ is_exchange_transaction(CurrentRow)
        /\ get_exchange_identifier(CurrentRow) \notin run.processed_exchanges)
         => /\ Len(lastPosts') = 2
            /\ lastPosts'[1].tx.transaction_id = CurrentRow.transaction_id
            /\ lastPosts'[1].tx.amount = -Abs(CurrentRow.amount)
            /\ lastPosts'[1].r.is_income = <<FALSE>>
            /\ lastPosts'[1].fileBefore = failedFile
            /\ lastPosts'[2].tx.transaction_id = CurrentRow.transaction_id
            /\ lastPosts'[2].tx.amount = Abs(CurrentRow.amount)
            /\ lastPosts'[2].r.is_income = <<TRUE>>
            /\ lastPosts'[2].fileBefore = lastPosts'[1].r.file
            /\ ~lastPosts'[1].r.raised /\ ~lastPosts'[2].r.raised
            /\ Len(lastPosts'[1].r.file) =
                  Len(failedFile) + (IF lastPosts'[1].r.value THEN 0 ELSE 1)
            /\ ~lastPosts'[1].r.value =>
                  lastPosts'[1].r.file[Len(failedFile) + 1].transaction = lastPosts'[1].tx
            /\ failedFile' = lastPosts'[2].r.file
            /\ Len(failedFile') =
                  Len(lastPosts'[1].r.file) + (IF lastPosts'[2].r.value THEN 0 ELSE 1)
            /\ SubSeq(failedFile', 1, Len(lastPosts'[1].r.file)) = lastPosts'[1].r.file
            /\ ~lastPosts'[2].r.value =>
                  failedFile'[Len(failedFile')].transaction = lastPosts'[2].tx
            /\ CurrentRow.transaction_id \notin run.new_logged_tx_ids
            /\ CurrentRow.transaction_id \in run'.new_logged_tx_ids]_vars

\* C12 witness: both legs of the exchange x1 returned False, the income leg
\* after a create call of its own; two records are queued, the expense leg's
\* first, and x1 is among the run's new identifiers.
C12_Witness ==
    /\ Len(lastPosts) = 2
    /\ lastPosts[1].tx.transaction_id = "x1"
    /\ FailedPosts = 2
    /\ lastPosts[2].r.calls # <<>>
    /\ Len(failedFile) = 2
    /\ failedFile[1].is_income = <<FALSE>>
    /\ failedFile[2].is_income = <<TRUE>>
    /\ "x1" \in run.new_logged_tx_ids

(***************************************************************************)
(* RevolutConnector.sync_transactions (src/revolut/revolut_connector.py):  *)
(* the sync run of the connector class, on the same ledger file            *)
(***************************************************************************)
\* line 40-45: CUTOFF_DATE unset, 2024-01-01T00:00:00Z
CONNECTOR_CUTOFF == <<2024, 1, 1, 0, 0, 0>>

\* notion_utils.py line 450: the parameters of post_transaction_to_notion
POST_PARAMETERS == {"tx", "account", "is_income", "override_usd_amount"}

\* revolut_connector.py lines 205-207: the keyword arguments of the call
SYNC_CALL_KEYWORDS == {"is_income", "force_account_id"}

\* a call with a keyword that is no parameter raises TypeError before the
\* body of the function is entered
CallRaisesTypeError(keywords, parameters) == ~(keywords \subseteq parameters)

\* lines 160-178: token, ledger load, counters, get_accounts
SyncStart ==
    /\ run.pc = "idle" /\ retry.pc = "idle"
    /\ runs < MaxRuns
    /\ runs' = runs + 1
    /\ run' = [IdleRun EXCEPT !.pc = "accounts",
                              !.logged_tx_ids = ledgerFile,
                              !.acct = 1]
    /\ lastPosts' = <<>>
    /\ UNCHANGED <<feed, ledgerFile, failedFile, store, retry, call, returned, passes, converterVars, classified, syncs, auth>>

\* lines 164-166, 177: no valid token (ValueError), or get_accounts raises
SyncStartRaises ==
    /\ run.pc = "idle" /\ retry.pc = "idle"
    /\ runs < MaxRuns
    /\ runs' = runs + 1
    /\ run' = [IdleRun EXCEPT !.ended = "raised"]
    /\ lastPosts' = <<>>
    /\ UNCHANGED <<feed, ledgerFile, failedFile, store, retry, call, returned, passes, converterVars, classified, syncs, auth>>

\* lines 180-189: get_transactions returns the account's rows (all of them)
SyncFetch ==
    /\ run.pc = "accounts"
    /\ run.acct <= Len(ACCOUNTS)
    /\ run' = IF feed[ACCOUNTS[run.acct].account_id] = <<>> THEN AfterRows(run)
              ELSE [run EXCEPT !.pc = "rows",
                               !.txns = feed[ACCOUNTS[run.acct].account_id],
                               !.row = 1]
    /\ lastPosts' = <<>>
    /\ UNCHANGED <<feed, ledgerFile, failedFile, store, retry, call, runs, returned, passes, converterVars, classified, syncs, auth>>

\* line 188 when get_transactions raises
SyncFetchRaises ==
    /\ run.pc = "accounts"
    /\ run.acct <= Len(ACCOUNTS)
    /\ run' = [IdleRun EXCEPT !.ended = "raised"]
    /\ lastPosts' = <<>>
    /\ UNCHANGED <<feed, ledgerFile, failedFile, store, retry, call, runs, returned, passes, converterVars, classified, syncs, auth>>

\* lines 192-214: the body of the loop over the rows, for the row `tx`
SyncRowBody(r, file, st, tx, account, env) ==
    IF AlreadyLogged(tx.transaction_id, r.logged_tx_ids)
    THEN RowResult(Skip(r), file, st, <<>>)
    ELSE IF TsLeq(tx.timestamp, CONNECTOR_CUTOFF)
    THEN RowResult(Skip(r), file, st, <<>>)
    ELSE IF CallRaisesTypeError(SYNC_CALL_KEYWORDS, POST_PARAMETERS)
    THEN RowResult([IdleRun EXCEPT !.ended = "raised"], file, st, <<>>)
    ELSE RegularRow(r, file, st, tx, account, tx.amount >= 0,
                    post_transaction_to_notion(file, tx, account, <<tx.amount >= 0>>, env))

SyncRowApply(b) ==
    /\ run' = IF b.run.ended = "raised" THEN b.run
              ELSE IF run.row = Len(run.txns) THEN AfterRows(b.run)
              ELSE [b.run EXCEPT !.row = @ + 1]
    /\ failedFile' = b.file
    /\ store' = b.store
    /\ lastPosts' = b.posts

\* one iteration of `for tx in txns`
SyncRow ==
    /\ run.pc = "rows"
    /\ \E env \in SyncEnvs :
          SyncRowApply(SyncRowBody(run, failedFile, store, run.txns[run.row],
                                   ACCOUNTS[run.acct], env))
    /\ UNCHANGED <<feed, ledgerFile, retry, call, runs, returned, passes, converterVars, classified, syncs, auth>>

\* lines 216-225: save the ledger, return the counts
SyncSave ==
    /\ run.pc = "accounts"
    /\ run.acct > Len(ACCOUNTS)
    /\ ledgerFile' = SavedLedger(run.logged_tx_ids, run.new_logged_tx_ids)
    /\ run' = [IdleRun EXCEPT
                  !.ended = "returned",
                  !.result = [successful |-> run.successful_transactions,
                              failed |-> run.failed_transactions,
                              skipped |-> run.skipped_transactions,
                              total_processed |-> run.successful_transactions
                                                    + run.failed_transactions]]
    /\ returned' = returned + 1
    /\ lastPosts' = <<>>
    /\ UNCHANGED <<feed, failedFile, store, retry, call, runs, passes, converterVars, classified, syncs, auth>>

TS_2023 == <<2023, 12, 31, 23, 59, 59>>

T0 == Tx("t0", -9, C_PLN, D_McDonalds, TS_2023)

ConnectorFeeds ==
    { FeedOf(<<T0, T1>>, <<T2>>),
      FeedOf(<<T1, T5>>, <<T0>>),
      FeedOf(<<T0>>, <<T6, T2>>) }

FeedIds(f) == UNION {{f[a][k].transaction_id : k \in 1..Len(f[a])} : a \in DOMAIN f}

InitConnector ==
    /\ feed \in ConnectorFeeds
    /\ ledgerFile \in SUBSET FeedIds(feed)
    /\ failedFile = <<>>
    /\ store = EmptyStore
    /\ run = IdleRun
    /\ retry = IdleRetry
    /\ lastPosts = <<>>
    /\ call = NoCall
    /\ runs = 0
    /\ returned = 0
    /\ passes = 0
    /\ ConverterAtImport
    /\ classified = <<>>
    /\ syncs = NoSyncs
    /\ auth = NoAuth

NextConnector ==
    \/ SyncStart
    \/ SyncStartRaises
    \/ SyncFetch
    \/ SyncFetchRaises
    \/ SyncRow
    \/ SyncSave

SpecConnector == InitConnector /\ [][NextConnector]_vars

\* C13 as stated: no step of a sync run over a row, whatever happens to the
\* post of that row, ends the run; the run goes on to the next row or to the
\* next account, and so to the saving of the ledger and the return of the
\* counts.
C13_RowNeverEndsTheRun ==
    [][run.pc = "rows" => run'.pc \in {"rows", "accounts"}]_vars

\* the failure queue file holds a record for this transaction identifier
Queued(id) == \E k \in 1..Len(failedFile) : failedFile[k].transaction.transaction_id = id

\* C14: an identifier enters the run's set of new identifiers only in a step
\* that made a post step for it, each such post step having returned True or
\* appended its record to the queue file; the step that saves the ledger adds
\* exactly the run's new identifiers, and each of them is then created in the
\* record store or has a record in the queue file.
C14_SeenMeansPostedOrQueued ==
    [][/\ \A id \in run'.new_logged_tx_ids \ run.new_logged_tx_ids :
             /\ run.pc = "rows"
             /\ id = CurrentRow.transaction_id
             /\ lastPosts' # <<>>
             /\ \A k \in 1..Len(lastPosts') :
                   /\ lastPosts'[k].path = "sync"
                   /\ lastPosts'[k].tx.transaction_id = id
                   /\ \/ lastPosts'[k].r.value
                      \/ /\ Len(lastPosts'[k].r.file) = Len(lastPosts'[k].fileBefore) + 1
                         /\ lastPosts'[k].r.file[Len(lastPosts'[k].r.file)].transaction
                               = lastPosts'[k].tx
       /\ ledgerFile' # ledgerFile
             => /\ ledgerFile' = ledgerFile \cup run.new_logged_tx_ids
                /\ failedFile' = failedFile
                /\ store' = store
                /\ \A id \in run.new_logged_tx_ids :
                      /\ SyncPosts(id) >= 1
                      /\ SyncCreated(id) >= 1 \/ Queued(id)]_vars

\* C14 witness: a run has saved t5 and t6 in the ledger; the post of t5
\* raised before its request and is queued as "critical", no record of it is
\* in the store.
C14_Witness ==
    /\ run.pc = "idle"
    /\ run.ended = "returned"
    /\ "t5" \in ledgerFile
    /\ "t6" \in ledgerFile
    /\ SyncPosts("t5") = 1
    /\ SyncCreated("t5") = 0
    /\ Queued("t5")
    /\ failedFile[1].error.error_type = "critical"

(***************************************************************************)
(* Retry passes while the record store answers every create call with 200, *)
(* passes being started again and again                                    *)
(***************************************************************************)
SuccessEnvs == Envs({<<Response(200), Response(200), Response(200)>>})

RetryStepAnswered200 == RetryStepIn(SuccessEnvs)

NextRetryLive ==
    \/ RetryStart
    \/ RetryStepAnswered200
    \/ RetryFinish

SpecRetryLive == InitRetry /\ [][NextRetryLive]_vars /\ WF_vars(NextRetryLive)

C_JPY == <<"J", "P", "Y">>
DATE_A == <<"2", "0", "2", "4", "-", "0", "1", "-", "1", "5">>
DATE_B == <<"2", "0", "2", "4", "-", "0", "1", "-", "1", "6">>

\* Decimal(str(raw_amount)) of the floats 100.0 and 0.15
ConvertAmounts == {Dec(1000, 1), Dec(15, 2)}
ConvertCurrencies == {C_USD, C_EUR, C_JPY}
ConvertDates == {DATE_A, DATE_B}

\* what the rate service does to the (at most three) requests of one conversion
RateAnswers ==
    { <<JsonBody([rates |-> [USD |-> Dec(1085, 3)]]),
        JsonBody([rates |-> [USD |-> Dec(1085, 3)]]),
        JsonBody([rates |-> [USD |-> Dec(1085, 3)]])>>,
      <<RequestRaises("timeout"), RequestRaises("connection"),
        JsonBody([rates |-> [USD |-> Dec(12, 1)]])>>,
      <<HttpError(503), JsonBody([rates |-> [USD |-> Dec(1, 0)]]),
        JsonBody([rates |-> [USD |-> Dec(1, 0)]])>>,
      <<RequestRaises("timeout"), RequestRaises("timeout"), RequestRaises("timeout")>>,
      <<HttpError(503), HttpError(500), HttpError(502)>>,
      <<HttpError(404), HttpError(404), HttpError(404)>>,
      <<RequestRaises("request"), RequestRaises("request"), RequestRaises("request")>>,
      <<JsonBody([message |-> "not found"]), JsonBody([message |-> "not found"]),
        JsonBody([message |-> "not found"])>> }

\* cache files an earlier process of this program can have left
CacheFileChoices ==
    { <<>>, (get_cache_key(C_EUR, DATE_A) :> DecimalStr(Dec(11, 1))) }

InitConvert ==
    /\ feed = FeedOf(<<>>, <<>>)
    /\ ledgerFile = {}
    /\ failedFile = <<>>
    /\ store = EmptyStore
    /\ run = IdleRun
    /\ retry = IdleRetry
    /\ lastPosts = <<>>
    /\ call = NoCall
    /\ runs = 0
    /\ returned = 0
    /\ passes = 0
    /\ cacheFile \in CacheFileChoices
    /\ cache = load_cache(cacheFile)
    /\ FALLBACK_RATES = DEFAULT_FALLBACK_RATES
    /\ conversions = <<>>
    /\ classified = <<>>
    /\ syncs = NoSyncs
    /\ auth = NoAuth

ConvertApply(amount, currency, date, r) ==
    /\ cache' = r.cache
    /\ cacheFile' = r.cacheFile
    /\ FALLBACK_RATES' = r.FALLBACK_RATES
    /\ conversions' = Append(conversions,
           [amount |-> amount, currency |-> currency, date |-> date,
            cache_before |-> cache, file_before |-> cacheFile,
            fallback_before |-> FALLBACK_RATES, r |-> r])

\* converter.convert_to_usd(amount, currency, date)
Convert ==
    /\ Len(conversions) < MaxConversions
    /\ \E amount \in ConvertAmounts, currency \in ConvertCurrencies,
          date \in ConvertDates, outs \in RateAnswers :
          ConvertApply(amount, currency, date,
              convert_to_usd(cache, cacheFile, FALLBACK_RATES, amount, currency, date, outs))
    /\ UNCHANGED <<feed, ledgerFile, failedFile, store, run, retry, lastPosts, call,
                   runs, returned, passes, classified, syncs, auth>>

\* the process is started again: the module is imported and line 165 builds
\* the singleton from the cache file
ConverterRestart ==
    /\ cache' = load_cache(cacheFile)
    /\ FALLBACK_RATES' = DEFAULT_FALLBACK_RATES
    /\ UNCHANGED <<feed, ledgerFile, failedFile, store, run, retry, lastPosts, call,
                   runs, returned, passes, cacheFile, conversions, classified, syncs, auth>>

NextConvert ==
    \/ Convert
    \/ ConverterRestart

SpecConvert == InitConvert /\ [][NextConvert]_vars

\* the conversions on record
Conversions == {conversions[i] : i \in 1..Len(conversions)}

CacheKeyOf(cv) == get_cache_key(cv.currency, cv.date)

\* C16: a conversion whose currency is USD returns the very amount it was given,
\* whatever the amount and the date, sends no request to the rate service, does
\* not look the cache up and leaves the cache, its file and the fallback table
\* as they were.
C16_BaseCurrencyIsIdentity ==
    \A cv \in Conversions :
        cv.currency = C_USD =>
            /\ cv.r.value = cv.amount
            /\ cv.r.remote_calls = 0
            /\ cv.r.cache_lookups = 0
            /\ cv.r.cache_writes = 0
            /\ cv.r.cache = cv.cache_before
            /\ cv.r.cacheFile = cv.file_before
            /\ cv.r.FALLBACK_RATES = cv.fallback_before

C16_Witness ==
    /\ \E cv \in Conversions :
          cv.currency = C_USD /\ cv.amount = Dec(15, 2) /\ cv.date = DATE_B
    /\ \E cv \in Conversions :
          cv.currency = C_USD /\ cv.amount = Dec(1000, 1) /\ cv.cache_before # <<>>

\* C17: a conversion that finds its (currency, date) key in the cache sends no
\* request to the rate service and returns amount * cached rate rounded to two
\* decimal places.
C17_CachedRateIsUsed ==
    \A cv \in Conversions :
        CacheKeyOf(cv) \in DOMAIN cv.cache_before =>
            /\ cv.r.remote_calls = 0
            /\ cv.r.value.e = 2
            /\ cv.r.value =
                   quantize(DecimalMul(cv.amount,
                                       DecimalOfStr(cv.cache_before[CacheKeyOf(cv)])))

\* 100.0 EUR at the cached "1.1" gives 110.00, and 0.15 EUR gives 0.16 (0.165
\* rounds to the even digit)
C17_Witness ==
    /\ \E cv \in Conversions :
          /\ cv.currency = C_EUR /\ cv.date = DATE_A /\ cv.amount = Dec(1000, 1)
          /\ cv.cache_before = (get_cache_key(C_EUR, DATE_A) :> <<"1", ".", "1">>)
          /\ cv.r.value = Dec(11000, 2)
    /\ \E cv \in Conversions :
          /\ cv.currency = C_EUR /\ cv.date = DATE_A /\ cv.amount = Dec(15, 2)
          /\ cv.cache_before = (get_cache_key(C_EUR, DATE_A) :> <<"1", ".", "1">>)
          /\ cv.r.value = Dec(16, 2)

\* C18: no step changes or removes an entry the cache holds, and a conversion
\* made for a key the cache holds sends no request to the rate service.
C18_CacheEntriesAreFinal ==
    [][/\ \A k \in DOMAIN cache : k \in DOMAIN cache' /\ cache'[k] = cache[k]
       /\ \A k \in DOMAIN cacheFile : k \in DOMAIN cacheFile' /\ cacheFile'[k] = cacheFile[k]
       /\ conversions' # conversions =>
             \/ conversions'[Len(conversions')].currency = C_USD
             \/ CacheKeyOf(conversions'[Len(conversions')]) \notin DOMAIN cache
             \/ conversions'[Len(conversions')].r.remote_calls = 0]_vars

\* an entry fetched by the first conversion is there, unchanged, after a second
\* conversion for the same key
C18_Witness ==
    /\ Len(conversions) = 2
    /\ conversions[1].r.source = "api"
    /\ conversions[2].r.source = "cache"
    /\ CacheKeyOf(conversions[1]) = CacheKeyOf(conversions[2])
    /\ cache[CacheKeyOf(conversions[1])] = <<"1", ".", "0", "8", "5">>

\* C19: a conversion that missed the cache and got a rate from the rate service
\* leaves that rate in the cache and in the cache file, and every later
\* conversion of the same amount, currency and date, a restart of the process
\* in between or not, sends no request and returns the same value.
C19_FetchedRateIsCached ==
    \A i \in 1..Len(conversions) :
        (/\ CacheKeyOf(conversions[i]) \notin DOMAIN conversions[i].cache_before
         /\ conversions[i].currency # C_USD
         /\ conversions[i].r.remote_calls >= 1
         /\ conversions[i].r.source = "api")
        => /\ CacheKeyOf(conversions[i]) \in DOMAIN conversions[i].r.cache
           /\ CacheKeyOf(conversions[i]) \in DOMAIN conversions[i].r.cacheFile
           /\ conversions[i].r.cacheFile = conversions[i].r.cache
           /\ conversions[i].r.value =
                  quantize(DecimalMul(conversions[i].amount,
                      DecimalOfStr(conversions[i].r.cache[CacheKeyOf(conversions[i])])))
           /\ \A j \in (i + 1)..Len(conversions) :
                 (/\ conversions[j].amount = conversions[i].amount
                  /\ conversions[j].currency = conversions[i].currency
                  /\ conversions[j].date = conversions[i].date)
                 => /\ conversions[j].r.remote_calls = 0
                    /\ conversions[j].r.value = conversions[i].r.value

\* 0.15 JPY fetched at 1.2 after two failed attempts, the process restarted,
\* the same conversion made again
C19_Witness ==
    /\ Len(conversions) = 2
    /\ conversions[1].currency = C_JPY /\ conversions[1].amount = Dec(15, 2)
    /\ conversions[1].r.remote_calls = 3
    /\ conversions[1].r.value = Dec(18, 2)
    /\ conversions[2].currency = C_JPY /\ conversions[2].amount = Dec(15, 2)
    /\ conversions[2].date = conversions[1].date
    /\ conversions[2].fallback_before = DEFAULT_FALLBACK_RATES
    /\ conversions[2].r.value = Dec(18, 2)
    /\ cacheFile = (get_cache_key(C_JPY, conversions[1].date) :> <<"1", ".", "2">>)

\* C20: a conversion that misses the cache and whose request to the rate
\* service ends in an exception returns, for a currency the fallback table
\* holds at that time, amount * fallback rate rounded to two decimal places,
\* and leaves the cache and its file as they were.
C20_FallbackRate ==
    \A cv \in Conversions :
        (/\ cv.currency # C_USD
         /\ CacheKeyOf(cv) \notin DOMAIN cv.cache_before
         /\ cv.r.remote_raised
         /\ cv.currency \in DOMAIN cv.fallback_before)
        => /\ cv.r.value =
                  quantize(DecimalMul(cv.amount,
                      DecimalOfStr(FloatStr(cv.fallback_before[cv.currency]))))
           /\ cv.r.cache = cv.cache_before
           /\ cv.r.cacheFile = cv.file_before
           /\ cv.r.cache_writes = 0

\* 0.15 EUR at the table's 1.1 gives 0.16 after three failed attempts, then
\* 100.0 EUR for the other date gives 110.00 after one attempt that is not
\* repeated
C20_Witness ==
    /\ Len(conversions) = 2
    /\ conversions[1].currency = C_EUR /\ conversions[1].amount = Dec(15, 2)
    /\ conversions[1].cache_before = <<>>
    /\ conversions[1].r.remote_raised /\ conversions[1].r.remote_calls = 3
    /\ conversions[1].r.value = Dec(16, 2)
    /\ conversions[2].currency = C_EUR /\ conversions[2].amount = Dec(1000, 1)
    /\ conversions[2].date # conversions[1].date
    /\ conversions[2].r.remote_raised /\ conversions[2].r.remote_calls = 1
    /\ conversions[2].r.value = Dec(11000, 2)
    /\ cache = <<>> /\ cacheFile = <<>>

\* C21: a conversion in a currency other than USD takes the first rate found,
\* looking in the cache, then asking the rate service, then looking in the
\* fallback table: a cached rate means no request; a miss means a request; the
\* table is used only when the request gave no rate; and when the table has no
\* rate either the amount given is returned as it is.
C21_DegradesInOrder ==
    \A cv \in Conversions :
        cv.currency # C_USD =>
            /\ cv.r.cache_lookups = 1
            /\ IF CacheKeyOf(cv) \in DOMAIN cv.cache_before
               THEN cv.r.source = "cache" /\ cv.r.remote_calls = 0
               ELSE /\ cv.r.remote_calls >= 1
                    /\ IF cv.r.remote_rate # <<>>
                       THEN /\ cv.r.source = "api"
                            /\ cv.r.value =
                                   quantize(DecimalMul(cv.amount,
                                       DecimalOfStr(FloatStr(cv.r.remote_rate[1]))))
                       ELSE IF cv.currency \in DOMAIN cv.fallback_before
                       THEN /\ cv.r.source = "fallback"
                            /\ cv.r.value =
                                   quantize(DecimalMul(cv.amount,
                                       DecimalOfStr(FloatStr(cv.fallback_before[cv.currency]))))
                       ELSE cv.r.source = "original" /\ cv.r.value = cv.amount

\* JPY is in neither the cache nor the table: after a request that raises and
\* after an answer without a rate the amount comes back unconverted
C21_Witness ==
    /\ Len(conversions) = 2
    /\ conversions[1].currency = C_JPY /\ conversions[1].amount = Dec(15, 2)
    /\ conversions[1].r.remote_raised /\ conversions[1].r.remote_calls = 3
    /\ conversions[1].r.value = Dec(15, 2)
    /\ conversions[2].currency = C_JPY /\ conversions[2].amount = Dec(1000, 1)
    /\ ~conversions[2].r.remote_raised /\ conversions[2].r.remote_rate = <<>>
    /\ conversions[2].r.source = "original"
    /\ conversions[2].r.value = Dec(1000, 1)

(***************************************************************************)
(* Specification of the classifier: calls of categorize_transaction, the   *)
(* description argument being None (<<>>) or a str (<<s>>)                  *)
(***************************************************************************)
D_Vault == <<"I", "n", "t", "e", "r", "e", "s", "t", " ", "f", "r", "o", "m", " ",
             "R", "e", "v", "o", "l", "u", "t", " ", "V", "a", "u", "l", "t">>
D_SalaryTransfer == <<"S", "a", "l", "a", "r", "y", " ", "t", "r", "a", "n", "s", "f", "e", "r">>
D_TrainToMcDonalds == <<"T", "r", "a", "i", "n", " ", "t", "o", " ",
                        "M", "c", "D", "o", "n", "a", "l", "d", "'", "s">>
D_RefundOfSalary == <<"R", "e", "f", "u", "n", "d", " ", "o", "f", " ",
                      "s", "a", "l", "a", "r", "y">>

ClassifyDescriptions ==
    { <<>>, << <<>> >>, <<D_McDonalds>>, <<D_Salary>>, <<D_ExchangedTo>>, <<D_Unknown>>,
      <<D_Transfer>>, <<D_Refund>>, <<D_Vault>>, <<D_SalaryTransfer>>,
      <<D_TrainToMcDonalds>>, <<D_RefundOfSalary>> }

\* `not description`: None and "" alike
Falsy(description) == description = <<>> \/ description[1] = <<>>

\* the str the function works on once `not description` is false
StrOf(description) == IF description = <<>> THEN <<>> ELSE description[1]

InitClassify ==
    /\ feed = FeedOf(<<>>, <<>>)
    /\ ledgerFile = {}
    /\ failedFile = <<>>
    /\ store = EmptyStore
    /\ run = IdleRun
    /\ retry = IdleRetry
    /\ lastPosts = <<>>
    /\ call = NoCall
    /\ runs = 0
    /\ returned = 0
    /\ passes = 0
    /\ ConverterAtImport
    /\ classified = <<>>
    /\ syncs = NoSyncs
    /\ auth = NoAuth

\* categorize_transaction(description, is_income), the embedding model
\* answering `sem` if it is asked
Classify ==
    /\ Len(classified) < MaxClassifications
    /\ \E description \in ClassifyDescriptions, is_income \in BOOLEAN :
         \E sem \in SemanticAnswers(is_income) :
            classified' = Append(classified,
                [description |-> description, is_income |-> is_income, sem |-> sem,
                 label |-> categorize_transaction(StrOf(description), is_income, sem)])
    /\ UNCHANGED <<feed, ledgerFile, failedFile, store, run, retry, lastPosts, call,
                   runs, returned, passes, converterVars, syncs, auth>>

NextClassify == Classify

SpecClassify == InitClassify /\ [][NextClassify]_vars

\* the classifications on record
Classifications == {classified[i] : i \in 1..Len(classified)}

\* C22 as stated: for a description that is None or empty the classifier
\* returns "Others", for income and for expense, and that label has a relation
\* identifier in the expense table and in the income table.
C22_DefaultLabelIsOthers ==
    \A cl \in Classifications :
        Falsy(cl.description) =>
            /\ cl.label = "Others"
            /\ cl.label \in DOMAIN CATEGORY_IDS
            /\ cl.label \in DOMAIN INCOME_CATEGORY_IDS

\* the keyword table of a direction
KeywordTable(is_income) == IF is_income THEN INCOME_KEYWORDS ELSE EXPENSE_KEYWORDS

\* the table rows one of whose keywords is in the lower-cased description
RowsHit(cl) ==
    {i \in 1..Len(KeywordTable(cl.is_income)) :
        \E k \in 1..Len(KeywordTable(cl.is_income)[i].keywords) :
            StrContains(StrLower(StrOf(cl.description)),
                        KeywordTable(cl.is_income)[i].keywords[k])}

HasOverrideMarker(cl) ==
    \E m \in {KW_exchanged_to, KW_exchanged_from, KW_vault, KW_transfer} :
        StrContains(StrLower(StrOf(cl.description)), m)

IdTable(is_income) == IF is_income THEN INCOME_CATEGORY_IDS ELSE CATEGORY_IDS

\* C24 as stated: when the label resolved for a post has no identifier in the
\* table of its direction, the category relation of the record is the
\* identifier of the default category ("Others") and the record is sent.
C24_MissingIdFallsBackToDefault ==
    (/\ call.state = "done"
     /\ CategoryName(call.tx, ThePost.is_income[1], call.env.sem)
            \notin DOMAIN IdTable(ThePost.is_income[1]))
    => /\ ThePost.category = <<IdTable(ThePost.is_income[1])["Others"]>>
       /\ ThePost.calls # <<>>

\* C25 as stated: every label the classifier returns for a direction has a
\* relation identifier in the table of that direction.
C25_EveryLabelHasAnId ==
    \A cl \in Classifications : cl.label \in DOMAIN IdTable(cl.is_income)

\* C26: the direction a post step works with is the is_income argument when one
\* is given, whatever the sign of the amount; without it, it is income exactly
\* when the amount is >= 0, or, for a description whose lower-cased text
\* contains "exchanged to", exactly when the amount is > 0.
C26_DirectionInference ==
    call.state = "done" =>
        ThePost.is_income =
            << IF call.is_income_arg # <<>> THEN call.is_income_arg[1]
               ELSE IF StrContains(StrLower(call.tx.description), KW_exchanged_to)
                    THEN call.tx.amount > 0
                    ELSE call.tx.amount >= 0 >>

\* "Exchanged to EUR" with amount 0 and no argument is an expense
C26_Witness ==
    /\ call.state = "done"
    /\ call.tx = Z2
    /\ call.is_income_arg = <<>>
    /\ ThePost.is_income = <<FALSE>>

(***************************************************************************)
(* Specification of two main() running at once on the same files, with     *)
(* nothing to keep them apart.  A step is what one process does between    *)
(* two accesses to a shared file: the ledger load, a fetch, a row up to    *)
(* its post steps, the read and the write of log_failed_transaction, the   *)
(* ledger save.  syncs.saved remembers every identifier ever written to    *)
(* the ledger file, syncs.appended counts the records written to the queue *)
(* file by log_failed_transaction.                                         *)
(***************************************************************************)
SyncProcs == {1, 2}

IdleProc == [run |-> IdleRun, started |-> FALSE, lpc |-> "none",
             appends |-> <<>>, failed_txs |-> <<>>]

\* the record store answers 200 or 503 to every create call of a post step
TwoSyncEnvs ==
    { [sem |-> "Food", outs |-> <<Response(200), Response(200), Response(200)>>],
      [sem |-> "Food", outs |-> <<Response(503), Response(503), Response(503)>>] }

InitTwoSyncs ==
    /\ feed \in {FeedOf(<<T1>>, <<>>), FeedOf(<<T1>>, <<T2>>)}
    /\ ledgerFile = {}
    /\ failedFile = <<>>
    /\ store = EmptyStore
    /\ run = IdleRun
    /\ retry = IdleRetry
    /\ lastPosts = <<>>
    /\ call = NoCall
    /\ runs = 0
    /\ returned = 0
    /\ passes = 0
    /\ ConverterAtImport
    /\ classified = <<>>
    /\ syncs = [NoSyncs EXCEPT !.procs = [p \in SyncProcs |-> IdleProc]]
    /\ auth = NoAuth

\* what a step of process p leaves of the variables the runs do not share
TwoSyncsFrame == UNCHANGED <<run, retry, call, passes, converterVars, classified, auth>>

\* lines 158-170 in process p: the ledger is loaded
TwoStart(p) ==
    /\ ~syncs.procs[p].started
    /\ syncs' = [syncs EXCEPT !.procs[p].started = TRUE,
                              !.procs[p].run = [IdleRun EXCEPT !.pc = "accounts",
                                                               !.logged_tx_ids = ledgerFile,
                                                               !.acct = 1]]
    /\ runs' = runs + 1
    /\ lastPosts' = <<>>
    /\ UNCHANGED <<feed, ledgerFile, failedFile, store, returned>>
    /\ TwoSyncsFrame

\* lines 172-175 in process p
TwoFetch(p) ==
    /\ syncs.procs[p].run.pc = "accounts"
    /\ syncs.procs[p].lpc = "none"
    /\ syncs.procs[p].run.acct <= Len(ACCOUNTS)
    /\ LET txns == FeedSlice(feed[ACCOUNTS[syncs.procs[p].run.acct].account_id])
       IN  syncs' = [syncs EXCEPT !.procs[p].run =
                        IF txns = <<>> THEN AfterRows(@)
                        ELSE [@ EXCEPT !.pc = "rows", !.txns = txns, !.row = 1]]
    /\ lastPosts' = <<>>
    /\ UNCHANGED <<feed, ledgerFile, failedFile, store, runs, returned>>
    /\ TwoSyncsFrame

\* one iteration of the loop over the rows in process p, `b` being the row's
\* body run on an empty queue: b.file is what the row hands, record by
\* record, to log_failed_transaction
TwoRowApply(p, b) ==
    /\ syncs' = [syncs EXCEPT
                    !.procs[p].run =
                        IF syncs.procs[p].run.row = Len(syncs.procs[p].run.txns)
                        THEN AfterRows(b.run)
                        ELSE [b.run EXCEPT !.row = @ + 1],
                    !.procs[p].appends = b.file,
                    !.procs[p].lpc = IF b.file = <<>> THEN "none" ELSE "read"]
    /\ store' = b.store
    /\ lastPosts' = b.posts

TwoRow(p) ==
    /\ syncs.procs[p].run.pc = "rows"
    /\ syncs.procs[p].lpc = "none"
    /\ \E env1 \in TwoSyncEnvs :
       \E env2 \in (IF is_exchange_transaction(
                          syncs.procs[p].run.txns[syncs.procs[p].run.row])
                    THEN TwoSyncEnvs ELSE {env1}) :
          TwoRowApply(p, RowBody(syncs.procs[p].run, <<>>, store,
                                 syncs.procs[p].run.txns[syncs.procs[p].run.row],
                                 ACCOUNTS[syncs.procs[p].run.acct], env1, env2))
    /\ UNCHANGED <<feed, ledgerFile, failedFile, runs, returned>>
    /\ TwoSyncsFrame

\* log_failed_transaction lines 86-97 in process p: the queue file is read and
\* the record appended to the copy
TwoLogRead(p) ==
    /\ syncs.procs[p].lpc = "read"
    /\ syncs' = [syncs EXCEPT
                    !.procs[p].failed_txs = Append(failedFile, Head(syncs.procs[p].appends)),
                    !.procs[p].lpc = "write"]
    /\ UNCHANGED <<feed, ledgerFile, failedFile, store, lastPosts, runs, returned>>
    /\ TwoSyncsFrame

\* log_failed_transaction lines 99-100 in process p: the copy is written
TwoLogWrite(p) ==
    /\ syncs.procs[p].lpc = "write"
    /\ failedFile' = syncs.procs[p].failed_txs
    /\ syncs' = [syncs EXCEPT
                    !.procs[p].appends = Tail(@),
                    !.procs[p].failed_txs = <<>>,
                    !.procs[p].lpc = IF Len(syncs.procs[p].appends) > 1 THEN "read" ELSE "none",
                    !.appended = @ + 1]
    /\ UNCHANGED <<feed, ledgerFile, store, lastPosts, runs, returned>>
    /\ TwoSyncsFrame

\* lines 259-261 in process p: the ledger is saved, main returns
TwoSave(p) ==
    /\ syncs.procs[p].run.pc = "accounts"
    /\ syncs.procs[p].lpc = "none"
    /\ syncs.procs[p].run.acct > Len(ACCOUNTS)
    /\ ledgerFile' = SavedLedger(syncs.procs[p].run.logged_tx_ids,
                                 syncs.procs[p].run.new_logged_tx_ids)
    /\ syncs' = [syncs EXCEPT
                    !.procs[p].run = [@ EXCEPT !.pc = "idle", !.ended = "returned"],
                    !.saved = @ \cup SavedLedger(syncs.procs[p].run.logged_tx_ids,
                                                 syncs.procs[p].run.new_logged_tx_ids)]
    /\ returned' = returned + 1
    /\ lastPosts' = <<>>
    /\ UNCHANGED <<feed, failedFile, store, runs>>
    /\ TwoSyncsFrame

\* a new transaction reaches the feed of the first account
FeedGrows ==
    /\ ~syncs.grown
    /\ feed' = [feed EXCEPT !["acc1"] = <<T6>> \o @]
    /\ syncs' = [syncs EXCEPT !.grown = TRUE]
    /\ UNCHANGED <<ledgerFile, failedFile, store, lastPosts, runs, returned>>
    /\ TwoSyncsFrame

NextTwoSyncs ==
    \/ \E p \in SyncProcs : TwoStart(p)
    \/ \E p \in SyncProcs : TwoFetch(p)
    \/ \E p \in SyncProcs : TwoRow(p)
    \/ \E p \in SyncProcs : TwoLogRead(p)
    \/ \E p \in SyncProcs : TwoLogWrite(p)
    \/ \E p \in SyncProcs : TwoSave(p)
    \/ FeedGrows

SpecTwoSyncs == InitTwoSyncs /\ [][NextTwoSyncs]_vars

\* the row process p is about to work on
RowOf(p) == syncs.procs[p].run.txns[syncs.procs[p].run.row]

\* the post steps the books `st` hold for a regular row of this identifier
PostsIn(st, id) ==
    (IF <<"sync", id, TRUE>> \in DOMAIN st THEN st[<<"sync", id, TRUE>>].posts ELSE 0)
    + (IF <<"sync", id, FALSE>> \in DOMAIN st THEN st[<<"sync", id, FALSE>>].posts ELSE 0)

\* process p takes a row step / a queue write / the ledger save
RowStepOf(p) ==
    /\ syncs.procs[p].run.pc = "rows"
    /\ syncs.procs[p].lpc = "none"
    /\ syncs'.procs[p] # syncs.procs[p]

QueueWriteOf(p) == syncs.procs[p].lpc = "write" /\ syncs'.procs[p].lpc # "write"

LedgerSaveOf(p) ==
    syncs.procs[p].run.ended = "none" /\ syncs'.procs[p].run.ended = "returned"

\* C27: a run decides from the ledger it loaded at its start, and writes the
\* two files from its own copies, whatever the other run has done meanwhile:
\* it posts a row that is new enough and not in its loaded ledger even when
\* the ledger file holds the identifier by then or the other run has posted
\* it; its save writes its loaded ledger plus its own new identifiers; its
\* queue write writes the copy it read plus its record.  Hence the
\* interleavings of C27_Witness.
C27_RunsSeeOnlyTheirOwnCopies ==
    [][\A p \in SyncProcs :
        /\ RowStepOf(p) =>
              IF \/ RowOf(p).transaction_id \in syncs.procs[p].run.logged_tx_ids
                 \/ TooOld(RowOf(p))
              THEN store' = store
              ELSE PostsIn(store', RowOf(p).transaction_id)
                       = PostsIn(store, RowOf(p).transaction_id) + 1
        /\ LedgerSaveOf(p) =>
              ledgerFile' = syncs.procs[p].run.logged_tx_ids
                                \cup syncs.procs[p].run.new_logged_tx_ids
        /\ QueueWriteOf(p) =>
              /\ failedFile' = syncs.procs[p].failed_txs
              /\ Len(failedFile') <= syncs'.appended]_vars

\* both runs have returned: t1 was created twice; t6, which the ledger file
\* held after the first save, is not in it after the second; and the queue
\* file holds fewer records than log_failed_transaction wrote to it
C27_Witness ==
    /\ \A p \in SyncProcs : syncs.procs[p].run.ended = "returned"
    /\ SyncCreated("t1") = 2
    /\ "t6" \in syncs.saved /\ "t6" \notin ledgerFile
    /\ Len(failedFile) < syncs.appended

(***************************************************************************)
(* Specification of the sync runs alone, without retry passes between      *)
(* them, over feeds that include an exchange both of whose legs can be     *)
(* created.                                                                *)
(***************************************************************************)
SyncFeeds ==
    { FeedOf(<<X3>>, <<>>),
      FeedOf(<<T1, T3>>, <<>>),
      FeedOf(<<X1>>, <<X2>>) }

InitSync ==
    /\ feed \in SyncFeeds
    /\ ledgerFile = {}
    /\ failedFile = <<>>
    /\ store = EmptyStore
    /\ run = IdleRun
    /\ retry = IdleRetry
    /\ lastPosts = <<>>
    /\ call = NoCall
    /\ runs = 0
    /\ returned = 0
    /\ passes = 0
    /\ ConverterAtImport
    /\ classified = <<>>
    /\ syncs = NoSyncs
    /\ auth = NoAuth

NextSync ==
    \/ MainStart
    \/ MainStartRaises
    \/ MainFetch
    \/ MainFetchRaises
    \/ MainRow
    \/ MainSave

SpecSync == InitSync /\ [][NextSync]_vars

\* C28: each row a sync run examines adds one to exactly one of its three
\* counters and leaves the two others as they were: skipped when no post step
\* was made for the row; otherwise successful when the post step, or both post
\* steps of an exchange, returned True, and failed when not.  The counts
\* returned are the counters, with total_processed = successful + failed.
C28_OneCounterPerRow ==
    [][/\ run.pc = "rows" =>
             /\ <<run'.successful_transactions, run'.failed_transactions,
                  run'.skipped_transactions>>
                  \in { <<run.successful_transactions + 1, run.failed_transactions,
                          run.skipped_transactions>>,
                        <<run.successful_transactions, run.failed_transactions + 1,
                          run.skipped_transactions>>,
                        <<run.successful_transactions, run.failed_transactions,
                          run.skipped_transactions + 1>> }
             /\ run'.skipped_transactions = run.skipped_transactions + 1
                    <=> lastPosts' = <<>>
             /\ run'.successful_transactions = run.successful_transactions + 1
                    <=> /\ lastPosts' # <<>>
                        /\ \A k \in 1..Len(lastPosts') : lastPosts'[k].r.value
             /\ Len(lastPosts') = IF lastPosts' = <<>> THEN 0
                                  ELSE IF is_exchange_transaction(CurrentRow) THEN 2 ELSE 1
       /\ (run.pc # "idle" /\ run'.ended = "returned") =>
             /\ run'.result.successful = run.successful_transactions
             /\ run'.result.failed = run.failed_transactions
             /\ run'.result.skipped = run.skipped_transactions
             /\ run'.result.total_processed
                    = run'.result.successful + run'.result.failed]_vars

\* the second run over the GBP/EUR exchange whose two legs the first run
\* created has skipped the row and returned 0, 0, 1 with a total of 0
C28_Witness ==
    /\ feed = FeedOf(<<X3>>, <<>>)
    /\ returned = 2
    /\ StoreCreated(<<"sync", "x3", FALSE>>) = 1
    /\ StoreCreated(<<"sync", "x3", TRUE>>) = 1
    /\ run.ended = "returned"
    /\ run.result = [successful |-> 0, failed |-> 0, skipped |-> 1, total_processed |-> 0]

\* the identifiers of the feed's rows with a timestamp at or before the cutoff
CutoffIds ==
    UNION {{feed[a][k].transaction_id :
               k \in {i \in 1..Len(feed[a]) :
                         TsLeq(feed[a][i].timestamp, CUTOFF_TIMESTAMP)}} :
           a \in DOMAIN feed}

FeedRows == UNION {{feed[a][k] : k \in 1..Len(feed[a])} : a \in DOMAIN feed}

\* one exchange delivered as two rows: distinct identifiers, the same
\* description, timestamps in the same minute
MatchedPairs ==
    {pr \in FeedRows \X FeedRows :
        /\ is_exchange_transaction(pr[1])
        /\ pr[1].transaction_id # pr[2].transaction_id
        /\ pr[1].description = pr[2].description
        /\ SubSeq(pr[1].timestamp, 1, 5) = SubSeq(pr[2].timestamp, 1, 5)}

\* C30: for an exchange delivered as a matched pair of rows, after any number
\* of sync runs that all returned, the runs have made post steps for one row
\* of the pair only, and the record store holds at most one expense record and
\* at most one income record for the pair.
C30_PairIsOneExchange ==
    runs = returned =>
    \A pr \in MatchedPairs :
        /\ ~(SyncPosts(pr[1].transaction_id) > 0 /\ SyncPosts(pr[2].transaction_id) > 0)
        /\ StoreCreated(<<"sync", pr[1].transaction_id, FALSE>>)
             + StoreCreated(<<"sync", pr[2].transaction_id, FALSE>>) <= 1
        /\ StoreCreated(<<"sync", pr[1].transaction_id, TRUE>>)
             + StoreCreated(<<"sync", pr[2].transaction_id, TRUE>>) <= 1

(***************************************************************************)
(* Further properties of the retry passes and of the post step             *)
(***************************************************************************)
\* C31: when a retry pass over a non-empty queue has ended, by returning or
\* by an exception of a post step, no record that the pass re-posted
\* successfully is in the queue file.
C31_SucceededRecordsLeaveTheQueue ==
    (retry.pc = "idle" /\ retry.ended \in {"returned", "raised"}) =>
        \A i \in 1..Len(retry.outcomes) :
            retry.outcomes[i] = "succeeded" =>
                \A k \in 1..Len(failedFile) : failedFile[k] # retry.failed_txs[i]

\* C32 as stated: a post step that found no relation identifier for the
\* resolved category still sends the record to the store (at least one create
\* call) and returns True exactly when the last create call was answered 200.
C32_MissingCategoryStillSubmits ==
    (call.state = "done" /\ ThePost.category = <<>>)
        => /\ ThePost.calls # <<>>
           /\ ThePost.value <=>
                 ThePost.calls[Len(ThePost.calls)] = [kind |-> "response", status |-> 200]

\* C33: the step of a retry pass whose re-post failed keeps for the record
\* its transaction, account, is_income and error fields, and every other field
\* but retry_count and last_retry, as loaded, whatever the failed attempt was
\* answered with; a record loaded as not permanent therefore stays not
\* permanent; and the step that ends the pass writes exactly the kept records.
C33_FailedRetryKeepsFirstError ==
    [][/\ (/\ retry.pc = "loop" /\ retry'.pc = "loop"
           /\ lastPosts' # <<>>
           /\ ~lastPosts'[1].r.value)
          => LET old == retry.failed_txs[retry.i]
                 new == retry'.still_failed[Len(retry'.still_failed)]
             IN  /\ Len(retry'.still_failed) = Len(retry.still_failed) + 1
                 /\ new.transaction = old.transaction
                 /\ new.account = old.account
                 /\ new.is_income = old.is_income
                 /\ new.error = old.error
                 /\ new.error.error_type # "permanent"
                 /\ DOMAIN new = DOMAIN old \cup {"last_retry"}
                 /\ \A f \in DOMAIN old \ {"retry_count", "last_retry"} : new[f] = old[f]
       /\ (retry.pc = "loop" /\ retry'.pc = "idle" /\ retry'.ended = "returned")
          => failedFile' = retry.still_failed]_vars

\* C33 witness: a record queued after a 503 ("temporary") was re-posted and
\* answered 404, a permanent status; the record the pass keeps still has the
\* error of the first failure, with retry_count 1.
C33_Witness ==
    /\ retry.pc = "loop"
    /\ retry.i = Len(retry.failed_txs) + 1
    /\ lastPosts # <<>>
    /\ lastPosts[1].r.calls # <<>>
    /\ lastPosts[1].r.calls[1] = [kind |-> "response", status |-> 404]
    /\ retry.still_failed # <<>>
    /\ LET kept == retry.still_failed[Len(retry.still_failed)]
       IN  /\ kept.error.error_type = "temporary"
           /\ kept.error.status_code = 503
           /\ kept.retry_count = 1
           /\ kept.transaction = lastPosts[1].tx

\* C34 as stated: when a retry pass over a non-empty queue has ended, by
\* returning or by an exception, the queue file holds at most as many records
\* as the pass loaded.
C34_PassNeverGrowsTheQueue ==
    (retry.pc = "idle" /\ retry.ended \in {"returned", "raised"})
        => Len(failedFile) <= Len(retry.failed_txs)

\* C35: a post step whose last create call was answered with a status
\* returns True exactly when that status is 200; for a status that is neither
\* 200 nor one of 429, 500, 502, 503, 504 nor one of 400, 401, 403, 404, 422
\* (201 and 418 here) it returns False and has appended one record with that
\* status code and error_type "unknown", which the retry pass's test for
\* permanent records does not exclude from re-posting.
C35_OnlyStatus200IsSuccess ==
    \A s \in AllStatuses :
        AnsweredWith(s)
            => /\ ThePost.value <=> s = 200
               /\ s \notin {200, 429, 500, 502, 503, 504, 400, 401, 403, 404, 422}
                     => /\ ~ThePost.value
                        /\ failedFile = Append(QueueBefore, LastQueued)
                        /\ LastQueued.error.status_code = s
                        /\ LastQueued.error.error_type = "unknown"
                        /\ LastQueued.transaction = call.tx
                        /\ ~IsPermanent(LastQueued)

\* C35 witness: a post step answered 201 returned False after one create call
\* and queued an "unknown" record.
C35_Witness ==
    /\ AnsweredWith(201)
    /\ Len(ThePost.calls) = 1
    /\ ~ThePost.value
    /\ Len(failedFile) = Len(QueueBefore) + 1
    /\ LastQueued.error = [status_code |-> 201, error_type |-> "unknown", attempt_time |-> Now]

\* the relation identifiers of a direction's table
TableIds(is_income) == {IdTable(is_income)[c] : c \in DOMAIN IdTable(is_income)}

\* C36 as stated: the category relation identifier of a post step, when it
\* has one, is an identifier of the table of the direction the record goes to
\* (income table for the income database, expense table for the expense one).
C36_CategoryIdFromOwnTable ==
    (call.state = "done" /\ ThePost.category # <<>>)
        => ThePost.category[1] \in TableIds(ThePost.is_income[1])

(***************************************************************************)
(* The fallback table of the converter (specification SpecConvert)         *)
(***************************************************************************)
\* C37: a conversion that fetched the rate r for its currency leaves the
\* fallback table with r for that currency and every other entry as it was;
\* and when the next conversion of the same process is in the same currency,
\* misses the cache and gets no rate from the rate service, its result is its
\* amount times r, rounded to cents, whatever the table held for the currency
\* at import.
C37_FetchedRateBecomesFallback ==
    \A i \in 1..Len(conversions) :
        (conversions[i].r.source = "api" /\ conversions[i].r.remote_rate # <<>>)
        => /\ DOMAIN conversions[i].r.FALLBACK_RATES
                 = DOMAIN conversions[i].fallback_before \cup {conversions[i].currency}
           /\ conversions[i].r.FALLBACK_RATES[conversions[i].currency]
                 = conversions[i].r.remote_rate[1]
           /\ \A c \in DOMAIN conversions[i].fallback_before \ {conversions[i].currency} :
                 conversions[i].r.FALLBACK_RATES[c] = conversions[i].fallback_before[c]
           /\ (/\ i < Len(conversions)
               /\ conversions[i + 1].fallback_before = conversions[i].r.FALLBACK_RATES
               /\ conversions[i + 1].currency = conversions[i].currency
               /\ CacheKeyOf(conversions[i + 1]) \notin DOMAIN conversions[i + 1].cache_before
               /\ conversions[i + 1].r.remote_rate = <<>>)
              => /\ conversions[i + 1].r.source = "fallback"
                 /\ conversions[i + 1].r.value =
                        quantize(DecimalMul(conversions[i + 1].amount,
                            DecimalOfStr(FloatStr(conversions[i].r.remote_rate[1]))))

\* 100.0 EUR fetched at 1.085 for one date, then 100.0 EUR for the other date
\* with every request failing: 108.50, where the table at import (1.1) gives
\* 110.00
C37_Witness ==
    /\ Len(conversions) = 2
    /\ conversions[1].currency = C_EUR /\ conversions[1].amount = Dec(1000, 1)
    /\ conversions[1].fallback_before = DEFAULT_FALLBACK_RATES
    /\ conversions[1].r.source = "api"
    /\ conversions[1].r.remote_rate = <<Dec(1085, 3)>>
    /\ conversions[2].currency = C_EUR /\ conversions[2].amount = Dec(1000, 1)
    /\ conversions[2].date # conversions[1].date
    /\ conversions[2].r.remote_raised /\ conversions[2].r.remote_calls = 3
    /\ conversions[2].r.source = "fallback"
    /\ conversions[2].r.value = Dec(10850, 2)
    /\ FALLBACK_RATES[C_EUR] = Dec(1085, 3)

(***************************************************************************)
(* bnp_notion_connector.py: the BNP sync                                   *)
(*                                                                         *)
(* A row of the BNP feed is the dict the API delivers; a dict is a record  *)
(* whose domain is the keys it has.  A timestamp string with an offset is  *)
(* the 6-tuple of its UTC date and time; a date-only or offset-less string *)
(* parses to a naive datetime, modelled as a tuple of another length.      *)
(***************************************************************************)
\* Python's None, where an identifier is expected
None == "None"

\* datetime.now().isoformat(): no offset
NaiveNow == <<2026, 1, 1, 0, 0, 0, "naive">>

\* lines 128-139; float() of a JSON number keeps its value
normalize_bnp_transaction(tx) ==
    [transaction_id |-> IF "id" \in DOMAIN tx THEN tx.id
                        ELSE IF "transactionId" \in DOMAIN tx THEN tx.transactionId
                        ELSE None,
     amount |-> IF "amount" \in DOMAIN tx /\ "value" \in DOMAIN tx.amount
                THEN tx.amount.value ELSE 0,
     currency |-> IF "amount" \in DOMAIN tx /\ "currency" \in DOMAIN tx.amount
                  THEN tx.amount.currency ELSE C_EUR,
     description |-> IF "description" \in DOMAIN tx THEN tx.description
                     ELSE IF "reference" \in DOMAIN tx THEN tx.reference
                     ELSE <<"B", "N", "P", " ", "T", "r", "a", "n", "s", "a", "c", "t", "i", "o", "n">>,
     timestamp |-> IF "bookingDate" \in DOMAIN tx THEN tx.bookingDate
                   ELSE IF "valueDate" \in DOMAIN tx THEN tx.valueDate
                   ELSE NaiveNow]

\* lines 225-229
BnpAccount(normalized_tx) ==
    [display_name |-> "BNP Paribas Savings", account_type |-> "savings",
     currency |-> normalized_tx.currency]

\* line 198: account.get("id", account.get("accountId"))
BnpAccountId(account) ==
    IF "id" \in DOMAIN account THEN account.id
    ELSE IF "accountId" \in DOMAIN account THEN account.accountId
    ELSE None

\* what get_bnp_accounts returns
BnpAccounts ==
    << [id |-> "acc1", name |-> "Savings", type |-> "savings"],
       [accountId |-> "acc2", displayName |-> "Deposit"] >>

\* line 211: comparing a naive datetime with CUTOFF_TIMESTAMP raises TypeError
CompareRaises(timestamp) == Len(timestamp) # 6

\* line 214: tx_id[:12] of None raises TypeError
SliceRaises(tx_id) == tx_id = None

BnpResult(r, file, st, posts, raised) ==
    [run |-> r, file |-> file, store |-> st, posts |-> posts, raised |-> raised]

\* lines 231-232: the post step, then new_logged_tx_ids.add(tx_id)
BnpPost(r, file, st, tx, p) ==
    BnpResult([r EXCEPT !.new_logged_tx_ids = @ \cup {tx.transaction_id}],
              p.file,
              StoreAfter(st, "bnp", tx, p),
              <<PostTrace("bnp", tx, BnpAccount(tx), <<tx.amount >= 0>>, file, p)>>,
              FALSE)

\* lines 202-232: the body of the loop over the rows, for the normalized row tx
BnpRowBody(r, file, st, tx, env) ==
    IF tx.transaction_id \in r.logged_tx_ids
    THEN BnpResult(r, file, st, <<>>, FALSE)
    ELSE IF CompareRaises(tx.timestamp)
    THEN BnpResult(r, file, st, <<>>, TRUE)
    ELSE IF TsLeq(tx.timestamp, CUTOFF_TIMESTAMP)
    THEN BnpResult(r, file, st, <<>>, FALSE)
    ELSE IF SliceRaises(tx.transaction_id)
    THEN BnpResult(r, file, st, <<>>, TRUE)
    ELSE BnpPost(r, file, st, tx,
                 post_transaction_to_notion(file, tx, BnpAccount(tx), <<tx.amount >= 0>>, env))

BnpCatchEndsRunMut(r) == [IdleRun EXCEPT !.ended = "raised"]

\* lines 234-236: except Exception: print, continue with the next account
BnpCatch(r) == AfterRows(r)

\* lines 166-188: token, ledger load, get_bnp_accounts
BnpStart ==
    /\ run.pc = "idle"
    /\ runs < MaxRuns
    /\ runs' = runs + 1
    /\ run' = [IdleRun EXCEPT !.pc = "accounts", !.logged_tx_ids = ledgerFile, !.acct = 1]
    /\ lastPosts' = <<>>
    /\ UNCHANGED <<feed, ledgerFile, failedFile, store, retry, call, returned, passes, converterVars, classified, syncs, auth>>

\* lines 166-187 when the token exchange or get_bnp_accounts raises
BnpStartRaises ==
    /\ run.pc = "idle"
    /\ runs < MaxRuns
    /\ runs' = runs + 1
    /\ run' = [IdleRun EXCEPT !.ended = "raised"]
    /\ lastPosts' = <<>>
    /\ UNCHANGED <<feed, ledgerFile, failedFile, store, retry, call, returned, passes, converterVars, classified, syncs, auth>>

\* lines 190-201: get_bnp_transactions returns the account's rows
BnpFetch ==
    /\ run.pc = "accounts"
    /\ run.acct <= Len(BnpAccounts)
    /\ LET txns == FeedSlice(feed[BnpAccountId(BnpAccounts[run.acct])])
       IN  run' = IF txns = <<>> THEN AfterRows(run)
                  ELSE [run EXCEPT !.pc = "rows", !.txns = txns, !.row = 1]
    /\ lastPosts' = <<>>
    /\ UNCHANGED <<feed, ledgerFile, failedFile, store, retry, call, runs, returned, passes, converterVars, classified, syncs, auth>>

\* line 198 when get_bnp_transactions raises (raise_for_status), inside the try
BnpFetchRaises ==
    /\ run.pc = "accounts"
    /\ run.acct <= Len(BnpAccounts)
    /\ run' = BnpCatch(run)
    /\ lastPosts' = <<>>
    /\ UNCHANGED <<feed, ledgerFile, failedFile, store, retry, call, runs, returned, passes, converterVars, classified, syncs, auth>>

BnpRowApply(b) ==
    /\ run' = IF b.raised THEN BnpCatch(b.run)
              ELSE IF run.row = Len(run.txns) THEN AfterRows(b.run)
              ELSE [b.run EXCEPT !.row = @ + 1]
    /\ failedFile' = b.file
    /\ store' = b.store
    /\ lastPosts' = b.posts

\* one iteration of `for tx in txns[:10]`
BnpRow ==
    /\ run.pc = "rows"
    /\ \E env \in SyncEnvs :
          BnpRowApply(BnpRowBody(run, failedFile, store,
                                 normalize_bnp_transaction(run.txns[run.row]), env))
    /\ UNCHANGED <<feed, ledgerFile, retry, call, runs, returned, passes, converterVars, classified, syncs, auth>>

\* lines 238-241: save the ledger
BnpSave ==
    /\ run.pc = "accounts"
    /\ run.acct > Len(BnpAccounts)
    /\ ledgerFile' = run.logged_tx_ids \cup run.new_logged_tx_ids
    /\ run' = [IdleRun EXCEPT !.ended = "returned"]
    /\ returned' = returned + 1
    /\ lastPosts' = <<>>
    /\ UNCHANGED <<feed, failedFile, store, retry, call, runs, passes, converterVars, classified, syncs, auth>>

\* rows as the BNP API delivers them
B0 == [id |-> "b0", amount |-> [value |-> -1, currency |-> C_EUR],
       description |-> D_McDonalds, bookingDate |-> TS_LATER]
B1 == [id |-> "b1", amount |-> [value |-> -5, currency |-> C_EUR],
       description |-> D_McDonalds, bookingDate |-> TS_NEW]
B2 == [transactionId |-> "b2", amount |-> [value |-> 7, currency |-> C_EUR],
       reference |-> D_Salary, valueDate |-> TS_LATER]
\* a date-only bookingDate
B3 == [id |-> "b3", amount |-> [value |-> -1, currency |-> C_EUR],
       description |-> D_McDonalds, bookingDate |-> <<2025, 9, 1>>]
B4 == [id |-> "b4", amount |-> [value |-> -2], description |-> D_Unknown,
       bookingDate |-> TS_LATER]
\* no identifier
B5 == [amount |-> [value |-> 3, currency |-> C_EUR], description |-> D_Salary,
       bookingDate |-> TS_LATER]
B6 == [id |-> "b6", amount |-> [value |-> -3, currency |-> C_EUR],
       description |-> D_McDonalds, bookingDate |-> CUTOFF_TIMESTAMP]

BnpFeeds ==
    { FeedOf(<<B1, B3, B4>>, <<B2>>),
      FeedOf(<<B0, B6, B5, B1>>, <<B2, B4>>) }

InitBnp ==
    /\ feed \in BnpFeeds
    /\ ledgerFile \in {{}, {"b0"}}
    /\ failedFile = <<>>
    /\ store = EmptyStore
    /\ run = IdleRun
    /\ retry = IdleRetry
    /\ lastPosts = <<>>
    /\ call = NoCall
    /\ runs = 0
    /\ returned = 0
    /\ passes = 0
    /\ ConverterAtImport
    /\ classified = <<>>
    /\ syncs = NoSyncs
    /\ auth = NoAuth

NextBnp ==
    \/ BnpStart
    \/ BnpStartRaises
    \/ BnpFetch
    \/ BnpFetchRaises
    \/ BnpRow
    \/ BnpSave

SpecBnp == InitBnp /\ [][NextBnp]_vars

\* the identifiers the BNP sync has made a post step for
BnpPosted == {k[2] : k \in {x \in DOMAIN store : x[1] = "bnp"}}

\* C38: in the BNP sync no step inside the loop over the accounts ends the
\* run: each step stays at the account or moves to the next one, keeping the
\* identifiers handled so far; a step that makes a post step puts the row's
\* identifier among them; the run ends only after the last account, by saving
\* as the ledger the identifiers loaded at the start together with those
\* handled, so that every identifier posted so far is in the saved ledger.
C38_BnpAccountErrorsAreContained ==
    [][/\ run.pc \in {"accounts", "rows"} =>
             /\ run'.ended # "raised"
             /\ run'.pc = "idle" => (run.acct = Len(BnpAccounts) + 1 /\ run'.ended = "returned")
             /\ run'.pc # "idle" =>
                   /\ run'.acct \in {run.acct, run.acct + 1}
                   /\ run'.logged_tx_ids = run.logged_tx_ids
                   /\ run.new_logged_tx_ids \subseteq run'.new_logged_tx_ids
                   /\ lastPosts' # <<>> =>
                         lastPosts'[1].tx.transaction_id \in run'.new_logged_tx_ids
       /\ (run.pc = "accounts" /\ run'.pc = "idle") =>
             /\ ledgerFile' = run.logged_tx_ids \cup run.new_logged_tx_ids
             /\ ledgerFile \subseteq ledgerFile'
             /\ BnpPosted \subseteq ledgerFile']_vars

\* C38 witness: with b0 logged earlier, a run posted b1, met the date-only row
\* b3 (the comparison with the cutoff raises), left b4 unexamined, posted b2 of
\* the next account and returned: the ledger holds b0, b1 and b2.
C38_Witness ==
    /\ feed = FeedOf(<<B1, B3, B4>>, <<B2>>)
    /\ returned = 1 /\ runs = 1
    /\ run.ended = "returned"
    /\ BnpPosted = {"b1", "b2"}
    /\ ledgerFile = {"b0", "b1", "b2"}

(***************************************************************************)
(* app.py: the server's handlers and the wait for the authorization code   *)
(*                                                                         *)
(* uvicorn.run(app) serves every request on one event loop.  sync_revolut  *)
(* and oauth_callback are `async def` handlers without an await: a handler *)
(* runs on the loop from its first line to its return, and revolut_sync()  *)
(* with its time.sleep(1) runs inside sync_revolut on that loop.           *)
(* auth.code[m] is auth_code_storage["code"] of the copy of app.py loaded  *)
(* as module m: started with `python app.py` the handlers belong to        *)
(* "__main__" while `from app import auth_code_storage` loads a second     *)
(* copy, "app"; started with `uvicorn app:app` there is the copy "app"     *)
(* only.                                                                   *)
(***************************************************************************)
MaxSyncRequests == 2

\* line 66 of notion_revolut_connector.py
timeout == 300

\* the code the authorization server passes to /callback
AuthCode == "code1"

\* line 57: the storage get_auth_code polls
PolledStorage == "app"

\* app.py line 24: the storage oauth_callback writes
HandlerStorage == auth.launch

\* app.py lines 39-43, main lines 142-153 without a usable token, get_auth_code
\* lines 39-67: the handler takes the loop and starts to wait
AuthSyncRequest ==
    /\ auth.loop = "free"
    /\ auth.requests < MaxSyncRequests
    /\ auth' = [auth EXCEPT !.loop = "sync", !.sync = "waiting", !.waited = 0,
                            !.during_wait = FALSE, !.requests = @ + 1]
    /\ UNCHANGED <<feed, ledgerFile, failedFile, store, run, retry, lastPosts, call, runs, returned, passes, converterVars, classified, syncs>>

\* the browser, redirected by the authorization server, sends GET /callback
AuthCallbackArrives ==
    /\ auth.sync = "waiting"
    /\ ~auth.pending
    /\ ~auth.during_wait
    /\ auth' = [auth EXCEPT !.pending = TRUE, !.during_wait = TRUE]
    /\ UNCHANGED <<feed, ledgerFile, failedFile, store, run, retry, lastPosts, call, runs, returned, passes, converterVars, classified, syncs>>

\* the event loop starts a handler only when no handler is running on it
LoopCanServe(loop) == loop = "free"

\* app.py lines 19-25: oauth_callback stores the code
AuthCallback ==
    /\ auth.pending
    /\ LoopCanServe(auth.loop)
    /\ auth' = [auth EXCEPT !.pending = FALSE, !.code[HandlerStorage] = <<AuthCode>>]
    /\ UNCHANGED <<feed, ledgerFile, failedFile, store, run, retry, lastPosts, call, runs, returned, passes, converterVars, classified, syncs>>

\* lines 68-71: one iteration of the while loop; after k sleeps of one second
\* the elapsed time is above k, so the 300th sleep is followed by the raise,
\* which main does not catch and sync_revolut turns into a 500 response
AuthWait ==
    /\ auth.sync = "waiting"
    /\ auth.code[PolledStorage] = <<>>
    /\ auth' = IF auth.waited + 1 >= timeout
               THEN [auth EXCEPT !.waited = @ + 1, !.sync = "timed_out", !.loop = "free"]
               ELSE [auth EXCEPT !.waited = @ + 1]
    /\ UNCHANGED <<feed, ledgerFile, failedFile, store, run, retry, lastPosts, call, runs, returned, passes, converterVars, classified, syncs>>

\* lines 68, 73-75: the code is there; it is taken and cleared and main goes on
\* to exchange_token and the sync run; the handler returns
AuthGotCode ==
    /\ auth.sync = "waiting"
    /\ auth.code[PolledStorage] # <<>>
    /\ auth' = [auth EXCEPT !.code[PolledStorage] = <<>>, !.sync = "proceeded",
                            !.loop = "free"]
    /\ UNCHANGED <<feed, ledgerFile, failedFile, store, run, retry, lastPosts, call, runs, returned, passes, converterVars, classified, syncs>>

InitAuth ==
    /\ feed = FeedOf(<<>>, <<>>)
    /\ ledgerFile = {}
    /\ failedFile = <<>>
    /\ store = EmptyStore
    /\ run = IdleRun
    /\ retry = IdleRetry
    /\ lastPosts = <<>>
    /\ call = NoCall
    /\ runs = 0
    /\ returned = 0
    /\ passes = 0
    /\ ConverterAtImport
    /\ classified = <<>>
    /\ syncs = NoSyncs
    /\ auth \in {[NoAuth EXCEPT !.launch = m] : m \in {"app", "__main__"}}

NextAuth ==
    \/ AuthSyncRequest
    \/ AuthCallbackArrives
    \/ AuthCallback
    \/ AuthWait
    \/ AuthGotCode

SpecAuth == InitAuth /\ [][NextAuth]_vars

\* C39 as stated: a sync that waits for the authorization code, the callback
\* request arriving during its wait, does not run into its timeout.
C39_WaitingSyncGetsTheCode ==
    auth.sync = "timed_out" => ~auth.during_wait

====
